---- MODULE Spec2Model ----
(***************************************************************************)
(* FinHelp backend (src/finhelp): the earnings-analysis workflow of        *)
(* agent.py, the unauthenticated HTTP routes of app.py that drive it and   *)
(* the chat completions, the chat-session routes (save, history, get,      *)
(* delete), the account routes (signup, login, me), and the result filter  *)
(* of search_for_any_transcript in earnings.py.                            *)
(*                                                                         *)
(* Conventions                                                             *)
(*  - Python None is the value None; a dict key that is absent from a      *)
(*    request body is the value Missing and is read through Get, which     *)
(*    models dict.get(key, "").                                            *)
(*  - Text that the code only measures (transcript content, chat message   *)
(*    content) is represented by its length; text that the code builds is  *)
(*    built here with \o exactly as the f-strings build it.  The emoji     *)
(*    that open the narration entries are written as ASCII tags.           *)
(*  - The external services (Tavily, OpenAI) are inputs: every await on    *)
(*    them draws one of the values the call can produce.                   *)
(*  - The database answers every call; its collections are sequences of    *)
(*    documents in insertion order.  Requests to the session and account   *)
(*    routes are handled one after the other.                              *)
(*  - auth.py is not part of src/finhelp; its four functions are modelled  *)
(*    from their contract: a hash verifies exactly the password it was     *)
(*    made from, and a token resolves to the data signed into it while it  *)
(*    is unexpired and its signature is intact.                            *)
(***************************************************************************)
EXTENDS Integers, Sequences, FiniteSets, TLC

VARIABLES
    endpoint,   \* route the request in flight was sent to
    request,    \* JSON body of the request in flight
    pc,         \* position of the handling coroutine
    state,      \* EarningsAgentState of the workflow run
    outcome,    \* value produced by the last external call of the run
    visited,    \* workflow nodes executed so far, in order
    calls,      \* external calls issued while handling the request
    response,   \* HTTP response of the request
    chat_data,      \* SaveChatRequest.messages of the save in flight
    chat_sessions,  \* documents of db.chat_sessions, in insertion order
    save_response,  \* body returned by save_chat_session
    now,            \* datetime.utcnow(), in seconds
    current_user,   \* user id get_current_user resolved for the request
    session_id,     \* path parameter of /api/chat/session/{session_id}
    saves,          \* completed saves, in order: who, when, what was answered
    users,          \* documents of db.users, in insertion order
    user_data,      \* UserSignup / UserLogin payload of the request in flight
    credential,     \* bearer credential presented to GET /api/auth/me
    tokens,         \* access tokens issued so far: token, route, account _id
    db_calls,       \* database operations of the request in flight
    transcript_search,  \* one run of search_for_any_transcript
    events,         \* requests finance_chat has made to its services, in order
    tasks,          \* handler coroutines the event loop runs concurrently
    tavily          \* what Tavily answers during the extraction in flight

vars == <<endpoint, request, pc, state, outcome, visited, calls, response,
          chat_data, chat_sessions, save_response,
          now, current_user, session_id, saves,
          users, user_data, credential, tokens, db_calls,
          transcript_search, events, tasks, tavily>>

httpVars == <<endpoint, request, pc, state, outcome, visited, calls, response>>
saveVars == <<chat_data, chat_sessions, save_response>>
sessVars == <<now, current_user, session_id, saves>>
authVars == <<users, user_data, credential, tokens, db_calls>>
concVars == <<events, tasks, tavily>>
otherVars == <<sessVars, authVars, transcript_search, concVars>>

-----------------------------------------------------------------------------
(* Python values *)

None == "<None>"
Missing == "<missing>"

\* bool(v) for a str-or-None value
Truthy(v) == v # "" /\ v # None

\* dict.get(key, ""): the default stands in for an absent key only
Get(d, key) == IF d[key] = Missing THEN "" ELSE d[key]

\* str.upper() on the texts the requests carry
Upper(s) ==
    CASE s = "aapl" -> "AAPL"
      [] s = "q1"   -> "Q1"
      [] s = "q3"   -> "Q3"
      [] s = "q5"   -> "Q5"
      [] OTHER      -> s

Last(seq) == seq[Len(seq)]

\* f"{n:03d}" for 0 <= n < 1000
Pad3(n) ==
    IF n < 10 THEN "00" \o ToString(n)
    ELSE IF n < 100 THEN "0" \o ToString(n)
    ELSE ToString(n)

\* f"{n:,}": decimal digits grouped in threes
RECURSIVE Commas(_)
Commas(n) ==
    IF n < 1000 THEN ToString(n)
    ELSE Commas(n \div 1000) \o "," \o Pad3(n % 1000)

RECURSIVE Lower(_)
\* str.lower()
Lower(text) ==
    LET upper == "ABCDEFGHIJKLMNOPQRSTUVWXYZ"
        lower == "abcdefghijklmnopqrstuvwxyz"
        c == SubSeq(text, 1, 1)
        at == {i \in 1..26 : SubSeq(upper, i, i) = c}
    IN  IF text = "" THEN ""
        ELSE (IF at = {} THEN c
              ELSE LET i == CHOOSE i \in at : TRUE IN SubSeq(lower, i, i))
             \o Lower(SubSeq(text, 2, Len(text)))

RECURSIVE RemoveSpaces(_)
\* str.replace(' ', '')
RemoveSpaces(text) ==
    IF text = "" THEN ""
    ELSE (IF SubSeq(text, 1, 1) = " " THEN "" ELSE SubSeq(text, 1, 1))
         \o RemoveSpaces(SubSeq(text, 2, Len(text)))

\* sub in text
Contains(sub, text) ==
    \E i \in 1..(Len(text) - Len(sub) + 1) :
        SubSeq(text, i, i + Len(sub) - 1) = sub

-----------------------------------------------------------------------------
(* Narration entries (AIMessage / HumanMessage content) *)

HumanMsg(ticker, quarter, year) ==
    "Analyze " \o ticker \o " " \o quarter \o " " \o year
SearchingMsg(quarter, year) ==
    "[search] Searching web for " \o quarter \o " " \o year \o " transcript..."
FoundMsg(source) == "[ok] Found on " \o source
FailedMsg(error) == "[x] " \o error
FaultMsg(e) == "[x] Error: " \o e
RetryingMsg == "[retry] Retrying..."
ExtractingMsg == "[doc] Extracting content..."
ExtractedMsg(n) == "[ok] Extracted " \o Commas(n) \o " characters"
AnalyzingMsg == "[llm] Analyzing..."
CompleteMsg == "[ok] Complete!"

-----------------------------------------------------------------------------
(* Transcript acquisition (earnings.py): what the three operations return *)

Tickers  == {Missing, "", "aapl", "AAPL"}
QuarterTexts == {Missing, "", "q1", "Q3", "q5", "2024"}
Years    == {Missing, "", "2024"}

\* Result URLs a matching search result can carry (result.get('url', ''))
Urls == {"", "https://seekingalpha.com/AAPL-transcript",
         "https://example.com/AAPL-transcript"}

\* the source label chosen from the URL
SourceOf(url) ==
    CASE url = "https://seekingalpha.com/AAPL-transcript" -> "Seeking Alpha"
      [] OTHER -> "Other"

\* TavilyClient(api_key=...) refusing the key, OpenAI refusing the request.
\* The faults these clients and the built-in operations raise carry a
\* message, so str(e) is a non-empty text.
TavilyFault == "No API key provided"
TavilyCallFault == "Tavily request failed"
OpenAIFault == "OpenAI request failed"
NoneLenFault == "object of type 'NoneType' has no len()"

NotFoundError(ticker, quarter, year) ==
    "No calendar " \o quarter \o " " \o year \o " earnings found for " \o ticker

Raise(op, e) == [op |-> op, kind |-> "raise", error |-> e]

\* search_for_any_transcript: a match, no match after the three queries, or
\* a fault outside the per-query try (the client constructor)
SearchReturns(ticker, quarter, year) ==
    {[op |-> "search", kind |-> "return", found |-> TRUE, url |-> u,
      source |-> SourceOf(u), error |-> None] : u \in Urls}
    \cup {[op |-> "search", kind |-> "return", found |-> FALSE, url |-> None,
           source |-> None, error |-> NotFoundError(ticker, quarter, year)]}
    \cup {Raise("search", TavilyFault)}

\* Lengths of the texts Tavily hands back, around the two thresholds
ExtractLens == {0, 1000, 1001}
SearchLens  == {0, 500, 501}

\* What Tavily answers to extract(urls=[url]) and to the site: search
TavilyResponses ==
    [client_fault   : {None, TavilyFault},
     extract_fault  : {None, TavilyCallFault},
     extract_results: {0, 1},
     extract_raw    : ExtractLens,
     search_fault   : {None, TavilyCallFault},
     search_results : {0, 1},
     search_content : SearchLens,
     search_raw_none: BOOLEAN,
     search_raw     : SearchLens,
     answer         : SearchLens]

\* no extraction was started
NoTavily ==
    [client_fault |-> None, extract_fault |-> None, extract_results |-> 0,
     extract_raw |-> 0, search_fault |-> None, search_results |-> 0,
     search_content |-> 0, search_raw_none |-> FALSE, search_raw |-> 0,
     answer |-> 0]

ExtractOk(n) == [op |-> "extract", kind |-> "return", success |-> TRUE,
                 content |-> n, error |-> None]
ExtractFail(e) == [op |-> "extract", kind |-> "return", success |-> FALSE,
                   content |-> 0, error |-> e]

\* extract_transcript_content(url) on the responses r
ExtractTranscriptContent(r) ==
    LET best == IF r.search_raw > r.search_content
                THEN r.search_raw ELSE r.search_content
    IN  IF r.client_fault # None THEN Raise("extract", r.client_fault)
        ELSE IF r.extract_fault # None THEN ExtractFail(r.extract_fault)
        ELSE IF r.extract_results > 0 /\ r.extract_raw > 1000
             THEN ExtractOk(r.extract_raw)
        ELSE IF r.search_fault # None THEN ExtractFail(r.search_fault)
        ELSE IF r.search_results > 0 /\ r.search_raw_none
             THEN ExtractFail(NoneLenFault)
        ELSE IF r.search_results > 0 /\ best > 500 THEN ExtractOk(best)
        ELSE IF r.answer > 500 THEN ExtractOk(r.answer)
        ELSE ExtractFail("Could not extract sufficient content from URL")

ExtractReturns == {ExtractTranscriptContent(r) : r \in TavilyResponses}

\* summarize_transcript_llm: the completion's text, or the client's fault
SummarizeReturns ==
    {[op |-> "summarize", kind |-> "return",
      summary |-> "**Financial Performance** ..."],
     Raise("summarize", OpenAIFault)}

-----------------------------------------------------------------------------
(* Earnings workflow (agent.py) *)

NoState ==
    [ticker |-> "", quarter |-> "", year |-> "", messages |-> <<>>,
     transcript_url |-> "", transcript_source |-> "",
     transcript_content |-> 0, summary |-> "", error |-> "",
     retry_count |-> 0]

NoOutcome == [op |-> "none", kind |-> "none"]

\* initial_state of run_earnings_analysis(ticker, quarter, year)
InitialState(ticker, quarter, year) ==
    [ticker |-> Upper(ticker), quarter |-> Upper(quarter), year |-> year,
     messages |-> <<HumanMsg(ticker, quarter, year)>>,
     transcript_url |-> "", transcript_source |-> "",
     transcript_content |-> 0, summary |-> "", error |-> "",
     retry_count |-> 0]

Narrate(st, text) == [st EXCEPT !.messages = Append(@, text)]

\* search_node on the value (or fault) of search_for_any_transcript
SearchNodeBody(st, out) ==
    LET s1 == Narrate(st, SearchingMsg(st.quarter, st.year))
    IN  IF out.kind = "raise"
        THEN Narrate([s1 EXCEPT !.error = out.error], FaultMsg(out.error))
        ELSE IF out.found
        THEN Narrate([s1 EXCEPT !.transcript_url = out.url,
                                !.transcript_source = out.source],
                     FoundMsg(out.source))
        ELSE Narrate([s1 EXCEPT !.error = out.error], FailedMsg(out.error))

\* retry_node leaving retry_count as it was
RetryNodeHeadUncounted(st) ==
    Narrate([st EXCEPT !.error = None], RetryingMsg)

\* retry_node up to its call of search_node
RetryNodeHead(st) ==
    Narrate([st EXCEPT !.retry_count = @ + 1, !.error = None], RetryingMsg)

\* extract_node on the value (or fault) of extract_transcript_content
ExtractNodeBody(st, out) ==
    LET s1 == Narrate(st, ExtractingMsg)
    IN  IF out.kind = "raise"
        THEN Narrate([s1 EXCEPT !.error = out.error], FaultMsg(out.error))
        ELSE IF out.success
        THEN Narrate([s1 EXCEPT !.transcript_content = out.content],
                     ExtractedMsg(out.content))
        ELSE Narrate([s1 EXCEPT !.error = out.error], FailedMsg(out.error))

\* summarize_node with an except clause that only narrates
SummarizeNodeBodyUnstored(st, out) ==
    LET s1 == Narrate(st, AnalyzingMsg)
    IN  IF out.kind = "raise"
        THEN Narrate(s1, FaultMsg(out.error))
        ELSE Narrate([s1 EXCEPT !.summary = out.summary], CompleteMsg)

\* summarize_node on the value (or fault) of summarize_transcript_llm
SummarizeNodeBody(st, out) ==
    LET s1 == Narrate(st, AnalyzingMsg)
    IN  IF out.kind = "raise"
        THEN Narrate([s1 EXCEPT !.error = out.error], FaultMsg(out.error))
        ELSE Narrate([s1 EXCEPT !.summary = out.summary], CompleteMsg)

\* route_after_search with the retry test inverted
RouteAfterSearchInverted(st) ==
    IF Truthy(st.error)
    THEN (IF st.retry_count >= 1 THEN "retry" ELSE "end")
    ELSE (IF Truthy(st.transcript_url) THEN "extract" ELSE "end")

RouteAfterSearch(st) ==
    IF Truthy(st.error)
    THEN (IF st.retry_count < 1 THEN "retry" ELSE "end")
    ELSE (IF Truthy(st.transcript_url) THEN "extract" ELSE "end")

\* the extract node wired to summarize unconditionally
RouteAfterExtractAlways(st) == "summarize"

RouteAfterExtract(st) ==
    IF st.transcript_content > 0 /\ ~Truthy(st.error)
    THEN "summarize" ELSE "end"

\* the retry label of the search node wired back to search
SearchEdgesLoop(label) ==
    CASE label = "extract" -> "extract"
      [] label = "retry"   -> "search"
      [] label = "end"     -> "END"

\* add_conditional_edges("search", route_after_search, {...})
SearchEdges(label) ==
    CASE label = "extract" -> "extract"
      [] label = "retry"   -> "retry"
      [] label = "end"     -> "END"

\* add_conditional_edges("retry", route_after_search, {...})
RetryEdges(label) ==
    CASE label = "extract" -> "extract"
      [] label = "retry"   -> "END"
      [] label = "end"     -> "END"

\* add_conditional_edges("extract", route_after_extract, {...})
ExtractEdges(label) ==
    CASE label = "summarize" -> "summarize"
      [] label = "end"       -> "END"

\* add_edge("summarize", END)
SummarizeEdge == "END"

\* the result with the error left out
AnalysisResultNoError(st) ==
    [ticker |-> st.ticker, quarter |-> st.quarter, year |-> st.year,
     time_period |-> st.quarter \o " " \o st.year,
     summary |-> st.summary, source_url |-> st.transcript_url,
     source |-> st.transcript_source, steps |-> st.messages,
     error |-> None]

\* the result with the period label built from the ticker
AnalysisResultPeriod(st) ==
    [ticker |-> st.ticker, quarter |-> st.quarter, year |-> st.year,
     time_period |-> st.ticker \o " " \o st.year,
     summary |-> st.summary, source_url |-> st.transcript_url,
     source |-> st.transcript_source, steps |-> st.messages,
     error |-> st.error]

\* the dict run_earnings_analysis returns
AnalysisResult(st) ==
    [ticker |-> st.ticker, quarter |-> st.quarter, year |-> st.year,
     time_period |-> st.quarter \o " " \o st.year,
     summary |-> st.summary, source_url |-> st.transcript_url,
     source |-> st.transcript_source, steps |-> st.messages,
     error |-> st.error]

-----------------------------------------------------------------------------
(* HTTP layer (app.py) *)

HTTPException(status_code, detail) ==
    [status_code |-> status_code, detail |-> detail]
NoException == [status_code |-> 0, detail |-> ""]

\* str(e) of an HTTPException: "<status_code>: <detail>"
StrOfHTTPException(e) == ToString(e.status_code) \o ": " \o e.detail

NoBody == [none |-> TRUE]
NoResponse == [status |-> 0, detail |-> "", body |-> NoBody]
Ok(body) == [status |-> 200, detail |-> "", body |-> body]

\* an HTTPException leaving the handler becomes the response
Respond(e) == [status |-> e.status_code, detail |-> e.detail, body |-> NoBody]

\* except Exception as e: raise HTTPException(status_code=500, detail=str(e))
\* The clause closes the try that holds the handler's own raise statements.
ExceptHTTP(e) == Respond(HTTPException(500, StrOfHTTPException(e)))
ExceptFault(msg) == Respond(HTTPException(500, msg))

ValidQuarters == {"Q1", "Q2", "Q3", "Q4"}

\* the checks of earnings_analyze_endpoint: the exception raised, if any
EarningsAnalyzeCheck(req) ==
    LET ticker  == Upper(Get(req, "ticker"))
        quarter == Upper(Get(req, "quarter"))
        year    == Get(req, "year")
    IN  IF ~Truthy(ticker) \/ ~Truthy(quarter) \/ ~Truthy(year)
        THEN HTTPException(400, "ticker, quarter, and year are required")
        ELSE IF quarter \notin ValidQuarters
        THEN HTTPException(400, "quarter must be Q1, Q2, Q3, or Q4")
        ELSE NoException

\* the check shared by the three chat routes
MessageCheck(req) ==
    IF ~Truthy(Get(req, "message"))
    THEN HTTPException(400, "message is required")
    ELSE NoException

NoCalls == [search |-> 0, extract |-> 0, summarize |-> 0,
            completion |-> 0, mcp |-> 0]

\* Supersteps one graph run may take; the compiled graph needs at most four
MaxSupersteps == 6

EarningsAnalyzeEndpoint ==
    /\ endpoint = "earnings-analyze"
    /\ pc = "recv"
    /\ LET e == EarningsAnalyzeCheck(request)
       IN  IF e # NoException
           THEN /\ response' = ExceptHTTP(e)
                /\ pc' = "responded"
                /\ state' = state
           ELSE /\ state' = InitialState(Upper(Get(request, "ticker")),
                                         Upper(Get(request, "quarter")),
                                         Get(request, "year"))
                /\ pc' = "search"
                /\ response' = response
    /\ UNCHANGED <<endpoint, request, outcome, visited, calls, saveVars, otherVars>>

SearchNode ==
    /\ pc = "search"
    /\ Len(visited) < MaxSupersteps
    /\ \E out \in SearchReturns(state.ticker, state.quarter, state.year) :
         /\ state' = SearchNodeBody(state, out)
         /\ outcome' = out
    /\ pc' = SearchEdges(RouteAfterSearch(state'))
    /\ visited' = Append(visited, "search")
    /\ calls' = [calls EXCEPT !.search = @ + 1]
    /\ UNCHANGED <<endpoint, request, response, saveVars, otherVars>>

RetryNode ==
    /\ pc = "retry"
    /\ Len(visited) < MaxSupersteps
    /\ \E out \in SearchReturns(state.ticker, state.quarter, state.year) :
         /\ state' = SearchNodeBody(RetryNodeHead(state), out)
         /\ outcome' = out
    /\ pc' = RetryEdges(RouteAfterSearch(state'))
    /\ visited' = Append(visited, "retry")
    /\ calls' = [calls EXCEPT !.search = @ + 1]
    /\ UNCHANGED <<endpoint, request, response, saveVars, otherVars>>

ExtractNode ==
    /\ pc = "extract"
    /\ Len(visited) < MaxSupersteps
    /\ \E out \in ExtractReturns :
         /\ state' = ExtractNodeBody(state, out)
         /\ outcome' = out
    /\ pc' = ExtractEdges(RouteAfterExtract(state'))
    /\ visited' = Append(visited, "extract")
    /\ calls' = [calls EXCEPT !.extract = @ + 1]
    /\ UNCHANGED <<endpoint, request, response, saveVars, otherVars>>

SummarizeNode ==
    /\ pc = "summarize"
    /\ Len(visited) < MaxSupersteps
    /\ \E out \in SummarizeReturns :
         /\ state' = SummarizeNodeBody(state, out)
         /\ outcome' = out
    /\ pc' = SummarizeEdge
    /\ visited' = Append(visited, "summarize")
    /\ calls' = [calls EXCEPT !.summarize = @ + 1]
    /\ UNCHANGED <<endpoint, request, response, saveVars, otherVars>>

\* ainvoke returned: run_earnings_analysis builds the result, the route
\* returns it
EarningsAnalyzeReturn ==
    /\ pc = "END"
    /\ response' = Ok(AnalysisResult(state))
    /\ pc' = "responded"
    /\ UNCHANGED <<endpoint, request, state, outcome, visited, calls, saveVars, otherVars>>

-----------------------------------------------------------------------------
(* Chat routes (app.py, finance_chat.py) *)

Turn(role, content) == [role |-> role, content |-> content]

\* chat.completions.create: a text, a tool call, or the client's fault
FirstCompletions ==
    {[op |-> "completion", kind |-> "return", tool_calls |-> FALSE,
      content |-> "EPS is earnings per share."],
     [op |-> "completion", kind |-> "return", tool_calls |-> TRUE,
      content |-> None],
     Raise("completion", OpenAIFault)}

FinalCompletions ==
    {[op |-> "completion", kind |-> "return", tool_calls |-> FALSE,
      content |-> "Per the sources, EPS rose."],
     Raise("completion", OpenAIFault)}

\* Blocks a CallToolResult may carry: one without a text attribute, texts
\* json.loads rejects, a JSON list, a JSON object without "results", and
\* JSON objects whose "results" hold n items
Block(has_text, parses, is_dict, has_results, results) ==
    [has_text |-> has_text, parses |-> parses, is_dict |-> is_dict,
     has_results |-> has_results, results |-> results]

\* result items of the search tool; content is carried as its length
TavilyItems ==
    {[title |-> "t", url |-> "https://a.example", content |-> 301],
     [title |-> Missing, url |-> Missing, content |-> 0]}

ItemCounts == {1, 6}

ToolBlocks ==
    {Block(FALSE, FALSE, FALSE, FALSE, <<>>),
     Block(TRUE, FALSE, FALSE, FALSE, <<>>),
     Block(TRUE, TRUE, FALSE, FALSE, <<>>),
     Block(TRUE, TRUE, TRUE, FALSE, <<>>)}
    \cup {Block(TRUE, TRUE, TRUE, TRUE, [i \in 1..n |-> item]) :
             item \in TavilyItems, n \in ItemCounts}

\* content blocks of one tool-call result
MaxBlocks == 2

ToolResults == UNION {[1..n -> ToolBlocks] : n \in 0..MaxBlocks}

ToolNames == {<<>>, <<"tavily-extract">>,
              <<"tavily-extract", "tavily-search">>}

\* what the remote tool server does during one mcp_session
McpSessions ==
    [connect_fault : BOOLEAN, tools : ToolNames, call_fault : BOOLEAN,
     content : ToolResults]

McpConnectFault == "MCP connection failed"
McpCallFault == "MCP tool call failed"

\* seq[:n]
Prefix(seq, n) == IF Len(seq) <= n THEN seq ELSE SubSeq(seq, 1, n)

\* the entry search_web appends for one item; the snippet is content[:300]
ResultEntry(item) ==
    [title |-> Get(item, "title"), url |-> Get(item, "url"),
     snippet |-> IF item.content <= 300 THEN item.content ELSE 300]

\* the entries one content block contributes to results
BlockEntries(block, max_results) ==
    IF block.has_text /\ block.parses /\ block.is_dict /\ block.has_results
    THEN LET items == Prefix(block.results, max_results)
         IN  [i \in 1..Len(items) |-> ResultEntry(items[i])]
    ELSE <<>>

RECURSIVE ParsedResults(_, _)
\* the loop over result.content: every block appends to the same list
ParsedResults(content, max_results) ==
    IF content = <<>> THEN <<>>
    ELSE BlockEntries(Head(content), max_results)
         \o ParsedResults(Tail(content), max_results)

RECURSIVE SearchTool(_)
\* the first tool whose lowercased name contains "search", or None
SearchTool(tools) ==
    IF tools = <<>> THEN None
    ELSE IF Contains("search", Lower(Head(tools))) THEN Head(tools)
    ELSE SearchTool(Tail(tools))

\* the requests one search_web call makes, in order, when the session is
\* never closed
SearchWebEventsUnclosed(session) ==
    IF session.connect_fault THEN <<"mcp_session.open">>
    ELSE <<"mcp_session.open", "session.initialize", "session.list_tools">>
         \o (IF SearchTool(session.tools) = None THEN <<>>
             ELSE <<"session.call_tool">>)

\* the requests one search_web call makes, in order: the context manager
\* closes the session on return and on a fault alike
SearchWebEvents(session) ==
    IF session.connect_fault THEN <<"mcp_session.open">>
    ELSE <<"mcp_session.open", "session.initialize", "session.list_tools">>
         \o (IF SearchTool(session.tools) = None THEN <<>>
             ELSE <<"session.call_tool">>)
         \o <<"mcp_session.close">>

\* search_web(query, max_results): the parsed results, or a fault of the
\* tool session
SearchWeb(session, max_results) ==
    IF session.connect_fault
    THEN Raise("search_web", McpConnectFault)
    ELSE IF SearchTool(session.tools) = None
    THEN Raise("search_web", "No search tool available")
    ELSE IF session.call_fault
    THEN Raise("search_web", McpCallFault)
    ELSE [op |-> "search_web", kind |-> "return",
          results |-> ParsedResults(session.content, max_results)]

\* search_web(search_query, max_results=5) against every tool server
SearchWebReturns ==
    UNION {{[events |-> SearchWebEvents(session),
             web |-> SearchWeb(session, 5)]} : session \in McpSessions}

RECURSIVE UrlsOf(_)
\* [r["url"] for r in search_results if r["url"]]
UrlsOf(rs) ==
    IF rs = <<>> THEN <<>>
    ELSE (IF Truthy(Head(rs).url) THEN <<Head(rs).url>> ELSE <<>>)
         \o UrlsOf(Tail(rs))

\* the conversation with the exchange appended
Updated(conversation, message, answer) ==
    conversation \o <<Turn("user", message), Turn("assistant", answer)>>

\* finance_chat_endpoint up to the first suspension of finance_chat: the
\* check, then the first completion request
FinanceChatEndpoint ==
    /\ endpoint = "finance-chat"
    /\ pc = "recv"
    /\ LET e == MessageCheck(request)
       IN  IF e # NoException
           THEN /\ response' = ExceptHTTP(e)
                /\ pc' = "responded"
                /\ UNCHANGED <<outcome, calls, events>>
           ELSE /\ calls' = [calls EXCEPT !.completion = @ + 1]
                /\ events' = Append(events, "chat.completions.create")
                /\ \E out \in FirstCompletions :
                     /\ outcome' = out
                     /\ IF out.kind = "raise"
                        THEN /\ response' = ExceptFault(out.error)
                             /\ pc' = "responded"
                        ELSE IF out.tool_calls
                        THEN /\ response' = response
                             /\ pc' = "search_web"
                        ELSE /\ response' = Ok(
                                  [response |-> out.content,
                                   sources |-> <<>>,
                                   conversation |->
                                       Updated(request.conversation,
                                               request.message, out.content)])
                             /\ pc' = "responded"
    /\ UNCHANGED <<endpoint, request, state, visited, saveVars, sessVars,
                   authVars, transcript_search, tasks, tavily>>

\* finance_chat from the tool call on: search_web, one session with the
\* search tool
FinanceChatSearch ==
    /\ pc = "search_web"
    /\ \E called \in SearchWebReturns :
         /\ calls' = [calls EXCEPT !.mcp = @ + 1]
         /\ events' = events \o called.events
         /\ outcome' = called.web
         /\ IF called.web.kind = "raise"
            THEN /\ response' = ExceptFault(called.web.error)
                 /\ pc' = "responded"
            ELSE /\ response' = response
                 /\ pc' = "completion"
    /\ UNCHANGED <<endpoint, request, state, visited, saveVars, sessVars,
                   authVars, transcript_search, tasks, tavily>>

\* finance_chat after search_web returned: the sources, then the second
\* completion request, whose text is the answer
FinanceChatAnswer ==
    /\ pc = "completion"
    /\ calls' = [calls EXCEPT !.completion = @ + 1]
    /\ events' = Append(events, "chat.completions.create")
    /\ LET search_results == outcome.results
       IN  \E out \in FinalCompletions :
             /\ outcome' = out
             /\ response' =
                  IF out.kind = "raise" THEN ExceptFault(out.error)
                  ELSE Ok([response |-> out.content,
                           sources |-> UrlsOf(search_results),
                           conversation |->
                               Updated(request.conversation,
                                       request.message, out.content)])
    /\ pc' = "responded"
    /\ UNCHANGED <<endpoint, request, state, visited, saveVars, sessVars,
                   authVars, transcript_search, tasks, tavily>>

\* the body shared by earnings_chat_endpoint and multi_earnings_chat_endpoint:
\* the check, one completion request, the updated conversation
GroundedChat ==
    LET e == MessageCheck(request)
    IN  IF e # NoException
        THEN /\ response' = ExceptHTTP(e)
             /\ UNCHANGED <<outcome, calls>>
        ELSE /\ calls' = [calls EXCEPT !.completion = @ + 1]
             /\ \E out \in FinalCompletions :
                  /\ outcome' = out
                  /\ response' =
                       IF out.kind = "raise" THEN ExceptFault(out.error)
                       ELSE Ok([response |-> out.content,
                                conversation |->
                                    Updated(request.conversation,
                                            request.message, out.content)])

EarningsChatEndpoint ==
    /\ endpoint = "earnings-chat"
    /\ pc = "recv"
    /\ GroundedChat
    /\ pc' = "responded"
    /\ UNCHANGED <<endpoint, request, state, visited, saveVars, otherVars>>

MultiEarningsChatEndpoint ==
    /\ endpoint = "multi-earnings-chat"
    /\ pc = "recv"
    /\ GroundedChat
    /\ pc' = "responded"
    /\ UNCHANGED <<endpoint, request, state, visited, saveVars, otherVars>>

-----------------------------------------------------------------------------
(* POST /api/chat/save (app.py): the token budget *)

\* Free tier limit of the save handler
MAX_TOKENS == 8000

\* Messages per submitted list
MaxMsgs == 3

\* Content lengths around the budget: 4000 and 8001 estimated tokens, and
\* lengths whose remainder modulo 4 the per-message estimate drops
ContentLens == {3, 16000, 16003, 32004}

ChatMessages == [role : {"user", "assistant"}, content : ContentLens]

MessageLists == UNION {[1..n -> ChatMessages] : n \in 0..MaxMsgs}

RECURSIVE TotalChars(_)
\* sum(len(msg.content) for msg in messages)
TotalChars(msgs) ==
    IF msgs = <<>> THEN 0 ELSE Head(msgs).content + TotalChars(Tail(msgs))

EstimatedTokens(msgs) == TotalChars(msgs) \div 4

RECURSIVE KeepRecent(_, _, _, _)
\* for msg in reversed(messages): stop at the first message that would
\* take the running total over the budget, else put it in front
KeepRecent(msgs, i, current_tokens, truncated_messages) ==
    IF i = 0 THEN truncated_messages
    ELSE LET msg_tokens == msgs[i].content \div 4
         IN  IF current_tokens + msg_tokens > MAX_TOKENS
             THEN truncated_messages
             ELSE KeepRecent(msgs, i - 1, current_tokens + msg_tokens,
                             <<msgs[i]>> \o truncated_messages)

RECURSIVE KeepFitting(_, _, _, _)
\* the walk with continue in place of break
KeepFitting(msgs, i, current_tokens, truncated_messages) ==
    IF i = 0 THEN truncated_messages
    ELSE LET msg_tokens == msgs[i].content \div 4
         IN  IF current_tokens + msg_tokens > MAX_TOKENS
             THEN KeepFitting(msgs, i - 1, current_tokens, truncated_messages)
             ELSE KeepFitting(msgs, i - 1, current_tokens + msg_tokens,
                              <<msgs[i]>> \o truncated_messages)

MessagesToSaveSkipping(msgs) ==
    IF EstimatedTokens(msgs) > MAX_TOKENS
    THEN KeepFitting(msgs, Len(msgs), 0, <<>>)
    ELSE msgs

\* messages_to_save of save_chat_session
MessagesToSave(msgs) ==
    IF EstimatedTokens(msgs) > MAX_TOKENS
    THEN KeepRecent(msgs, Len(msgs), 0, <<>>)
    ELSE msgs

NoSaveResponse == [success |-> FALSE, session_id |-> "", message_count |-> 0,
                   truncated |-> FALSE]

\* Documents inserted before the model stops allocating _id values
MaxIds == 8

\* An ObjectId is represented by the number of the allocation that made
\* it; str(oid) is its rendering and ObjectId(text) parses a rendering
\* back, raising InvalidId (None here) for any other text.
StrOfObjectId(oid) == ToString(oid)
ObjectId(text) ==
    IF \E oid \in 1..MaxIds : StrOfObjectId(oid) = text
    THEN CHOOSE oid \in 1..MaxIds : StrOfObjectId(oid) = text
    ELSE 0

\* the routes of app.py that work on db.chat_sessions, in the order the
\* decorators register them; POST /api/chat/save is registered twice
Routes ==
    << [route |-> "chat-save",           handler |-> "save_chat_session@380"],
       [route |-> "chat-history",        handler |-> "get_chat_history"],
       [route |-> "chat-session-get",    handler |-> "get_chat_session"],
       [route |-> "chat-session-delete", handler |-> "delete_chat_session"],
       [route |-> "chat-save",           handler |-> "save_chat_session@544"] >>

\* the router walks its routes in registration order and the first route
\* that matches method and path handles the request
Handler(route) ==
    LET first == CHOOSE i \in 1..Len(Routes) :
                    /\ Routes[i].route = route
                    /\ \A j \in 1..(i - 1) : Routes[j].route # route
    IN  Routes[first].handler

\* find({"user_id": user_id})
SessionsOf(sessions, user_id) ==
    LET Mine(s) == s.user_id = user_id
    IN  SelectSeq(sessions, Mine)

RemoveAt(seq, i) == SubSeq(seq, 1, i - 1) \o SubSeq(seq, i + 1, Len(seq))

RECURSIVE SortUpdatedDesc(_)
\* sort("updated_at", -1); documents with equal updated_at stay in
\* insertion order
SortUpdatedDesc(docs) ==
    IF docs = <<>> THEN <<>>
    ELSE LET i == CHOOSE i \in 1..Len(docs) :
                     \A j \in 1..Len(docs) :
                        \/ docs[j].updated_at < docs[i].updated_at
                        \/ docs[j].updated_at = docs[i].updated_at /\ i <= j
         IN  <<docs[i]>> \o SortUpdatedDesc(RemoveAt(docs, i))

\* a cursor read with .limit(n) or .to_list(length=n)
Limit(docs, n) == SubSeq(docs, 1, IF Len(docs) < n THEN Len(docs) ELSE n)

\* the chat_session document with the _id insert_one gives it
SessionDoc(inserted_id, user_id, messages_to_save, utcnow) ==
    [_id |-> inserted_id,
     user_id |-> user_id,
     messages |-> messages_to_save,
     message_count |-> Len(messages_to_save),
     updated_at |-> utcnow,
     created_at |-> utcnow]

\* the database part of the first definition of save_chat_session: the
\* session is always inserted
SaveAsNewSession(sessions, user_id, messages_to_save, inserted_id, utcnow) ==
    [chat_sessions |->
        Append(sessions,
               SessionDoc(inserted_id, user_id, messages_to_save, utcnow)),
     session_id |-> inserted_id]

\* update_one with a $set that carries created_at as well
SetSessionWithCreatedAt(sessions, oid, user_id, messages_to_save, utcnow) ==
    [i \in 1..Len(sessions) |->
        IF sessions[i]._id = oid
        THEN [sessions[i] EXCEPT !.user_id = user_id,
                                 !.messages = messages_to_save,
                                 !.message_count = Len(messages_to_save),
                                 !.updated_at = utcnow,
                                 !.created_at = utcnow]
        ELSE sessions[i]]

\* update_one({"_id": oid}, {"$set": chat_session}) of the second definition:
\* chat_session carries user_id, messages, message_count and updated_at
SetSession(sessions, oid, user_id, messages_to_save, utcnow) ==
    [i \in 1..Len(sessions) |->
        IF sessions[i]._id = oid
        THEN [sessions[i] EXCEPT !.user_id = user_id,
                                 !.messages = messages_to_save,
                                 !.message_count = Len(messages_to_save),
                                 !.updated_at = utcnow]
        ELSE sessions[i]]

\* the database part of the second definition of save_chat_session: the
\* user's most recent session is updated when it is less than an hour old,
\* otherwise a session is inserted and all but the user's five most recent
\* sessions are deleted
SaveOrUpdateSession(sessions, user_id, messages_to_save, inserted_id, utcnow) ==
    LET mine == SortUpdatedDesc(SessionsOf(sessions, user_id))
        inserted ==
            Append(sessions,
                   SessionDoc(inserted_id, user_id, messages_to_save, utcnow))
    IN  IF mine = <<>>
        THEN [chat_sessions |-> inserted, session_id |-> inserted_id]
        ELSE LET existing_session == mine[1]
                 time_diff == utcnow - existing_session.updated_at
             IN  IF time_diff < 3600
                 THEN [chat_sessions |->
                          SetSession(sessions, existing_session._id, user_id,
                                     messages_to_save, utcnow),
                       session_id |-> existing_session._id]
                 ELSE LET all_sessions ==
                              Limit(SortUpdatedDesc(
                                        SessionsOf(inserted, user_id)), 100)
                          sessions_to_delete ==
                              {all_sessions[i]._id :
                                  i \in 6..Len(all_sessions)}
                          Kept(s) == s._id \notin sessions_to_delete
                      IN  [chat_sessions |-> SelectSeq(inserted, Kept),
                           session_id |-> inserted_id]

\* POST /api/chat/save as the router dispatches it
SaveChatSession ==
    /\ endpoint = "chat-save"
    /\ pc = "recv"
    /\ LET user_id == chat_data.user_id
           messages_to_save == MessagesToSave(chat_data.messages)
           inserted_id == Len(saves) + 1
           saved ==
               IF Handler("chat-save") = "save_chat_session@380"
               THEN SaveAsNewSession(chat_sessions, user_id, messages_to_save,
                                     inserted_id, now)
               ELSE SaveOrUpdateSession(chat_sessions, user_id,
                                        messages_to_save, inserted_id, now)
       IN  /\ chat_sessions' = saved.chat_sessions
           /\ save_response' =
                 [success |-> TRUE,
                  session_id |-> StrOfObjectId(saved.session_id),
                  message_count |-> Len(messages_to_save),
                  truncated |-> Len(messages_to_save) < Len(chat_data.messages)]
           /\ saves' = Append(saves,
                 [user_id |-> user_id, at |-> now,
                  session_id |-> StrOfObjectId(saved.session_id),
                  messages |-> messages_to_save,
                  stored |-> Len(SessionsOf(saved.chat_sessions, user_id))])
    /\ pc' = "responded"
    /\ response' = Ok(NoBody)
    /\ UNCHANGED <<endpoint, request, state, outcome, visited, calls, chat_data,
                   now, current_user, session_id, authVars, transcript_search,
                    concVars>>

\* find_one / delete_one filter {"_id": ObjectId(session_id), "user_id": user_id}
FindSessionAnyOwner(sessions, oid, user_id) ==
    LET Hit(s) == s._id = oid
    IN  SelectSeq(sessions, Hit)

FindSession(sessions, oid, user_id) ==
    LET Hit(s) == s._id = oid /\ s.user_id = user_id
    IN  SelectSeq(sessions, Hit)

\* the listing entry get_chat_history builds for one session; the preview
\* is the first 100 characters of the last message
HistoryEntry(session) ==
    [id |-> StrOfObjectId(session._id),
     message_count |-> session.message_count,
     created_at |-> session.created_at,
     updated_at |-> session.updated_at,
     preview |-> IF session.messages # <<>>
                 THEN (IF Last(session.messages).content < 100
                       THEN Last(session.messages).content ELSE 100)
                 ELSE 0]

\* GET /api/chat/history without a limit parameter (limit: int = 10)
GetChatHistory ==
    /\ endpoint = "chat-history"
    /\ pc = "recv"
    /\ LET cursor == Limit(SortUpdatedDesc(
                         SessionsOf(chat_sessions, current_user.user_id)), 10)
           sessions == [i \in 1..Len(cursor) |-> HistoryEntry(cursor[i])]
       IN  response' = Ok([sessions |-> sessions, count |-> Len(sessions)])
    /\ pc' = "responded"
    /\ UNCHANGED <<endpoint, request, state, outcome, visited, calls, saveVars,
                   sessVars, authVars, transcript_search,
                    concVars>>

\* GET /api/chat/session/{session_id}
GetChatSession ==
    /\ endpoint = "chat-session-get"
    /\ pc = "recv"
    /\ LET oid == ObjectId(session_id)
           found == FindSession(chat_sessions, oid, current_user.user_id)
       IN  response' =
              IF oid = 0
              THEN ExceptFault("InvalidId")
              ELSE IF found = <<>>
              THEN Respond(HTTPException(404, "Session not found"))
              ELSE Ok([id |-> StrOfObjectId(found[1]._id),
                       messages |-> found[1].messages,
                       created_at |-> found[1].created_at,
                       updated_at |-> found[1].updated_at])
    /\ pc' = "responded"
    /\ UNCHANGED <<endpoint, request, state, outcome, visited, calls, saveVars,
                   sessVars, authVars, transcript_search,
                    concVars>>

\* DELETE /api/chat/session/{session_id}
DeleteChatSession ==
    /\ endpoint = "chat-session-delete"
    /\ pc = "recv"
    /\ LET oid == ObjectId(session_id)
           user_id == current_user.user_id
           Stays(s) == ~(s._id = oid /\ s.user_id = user_id)
           remaining == SelectSeq(chat_sessions, Stays)
           deleted_count == Len(chat_sessions) - Len(remaining)
       IN  /\ chat_sessions' = remaining
           /\ response' =
                 IF oid = 0
                 THEN ExceptFault("InvalidId")
                 ELSE IF deleted_count = 0
                 THEN Respond(HTTPException(404, "Session not found"))
                 ELSE Ok([success |-> TRUE, deleted |-> TRUE])
    /\ pc' = "responded"
    /\ UNCHANGED <<endpoint, request, state, outcome, visited, calls,
                   chat_data, save_response,
                   sessVars, authVars, transcript_search,
                    concVars>>

-----------------------------------------------------------------------------
(* Specifications *)

Endpoints == {"earnings-analyze", "finance-chat", "earnings-chat",
              "multi-earnings-chat"}

NoRequest == [ticker |-> Missing, quarter |-> Missing, year |-> Missing,
              message |-> Missing, conversation |-> <<>>]

Conversations == {<<>>, <<Turn("user", "Hi"), Turn("assistant", "Hello")>>}

\* JSON bodies a client may send to each route
Requests(route) ==
    IF route = "earnings-analyze"
    THEN [ticker : Tickers, quarter : QuarterTexts, year : Years,
          message : {Missing}, conversation : {<<>>}]
    ELSE [ticker : {Missing}, quarter : {Missing}, year : {Missing},
          message : {Missing, "", "What is EPS?"},
          conversation : Conversations]

NoChatData == [user_id |-> "", messages |-> <<>>]

NoCurrentUser == [user_id |-> "", email |-> ""]
NoUserData == [email |-> "", password |-> "", name |-> ""]
NoCredential == [sub |-> "", email |-> "", signed |-> FALSE, expired |-> FALSE]
NoSearch == [ticker |-> "", quarter |-> "", year |-> "", queries |-> <<>>,
             response |-> <<>>, fault |-> FALSE, examined |-> <<>>,
             result |-> NoBody, earlier |-> <<>>]

\* no session request was sent yet
SessionsIdle ==
    /\ now = 0
    /\ current_user = NoCurrentUser
    /\ session_id = ""
    /\ saves = <<>>

\* no account exists and no auth request was sent yet
AuthIdle ==
    /\ users = <<>>
    /\ user_data = NoUserData
    /\ credential = NoCredential
    /\ tokens = {}
    /\ db_calls = <<>>

\* search_for_any_transcript was not called
SearchIdle == transcript_search = NoSearch

\* finance_chat has requested nothing and no coroutine was started
ConcIdle ==
    /\ events = <<>>
    /\ tasks = <<>>
    /\ tavily = NoTavily

\* one request to one of the unauthenticated routes
Init ==
    /\ endpoint \in Endpoints
    /\ request \in Requests(endpoint)
    /\ pc = "recv"
    /\ state = NoState
    /\ outcome = NoOutcome
    /\ visited = <<>>
    /\ calls = NoCalls
    /\ response = NoResponse
    /\ chat_data = NoChatData
    /\ chat_sessions = <<>>
    /\ save_response = NoSaveResponse
    /\ SessionsIdle
    /\ AuthIdle
    /\ SearchIdle
    /\ ConcIdle

Next ==
    \/ EarningsAnalyzeEndpoint
    \/ SearchNode
    \/ RetryNode
    \/ ExtractNode
    \/ SummarizeNode
    \/ EarningsAnalyzeReturn
    \/ FinanceChatEndpoint
    \/ FinanceChatSearch
    \/ FinanceChatAnswer
    \/ EarningsChatEndpoint
    \/ MultiEarningsChatEndpoint

Spec == Init /\ [][Next]_vars

\* the event loop resumes the handling coroutine whenever the call it awaits
\* has produced its value
FairSpec == Spec /\ WF_vars(Next)

\* one authenticated save request
SaveInit ==
    /\ endpoint = "chat-save"
    /\ request = NoRequest
    /\ pc = "recv"
    /\ state = NoState
    /\ outcome = NoOutcome
    /\ visited = <<>>
    /\ calls = NoCalls
    /\ response = NoResponse
    /\ chat_data \in [user_id : {"u1"}, messages : MessageLists]
    /\ chat_sessions = <<>>
    /\ save_response = NoSaveResponse
    /\ SessionsIdle
    /\ AuthIdle
    /\ SearchIdle
    /\ ConcIdle

SaveNext == SaveChatSession

SaveSpec == SaveInit /\ [][SaveNext]_vars

-----------------------------------------------------------------------------
(* Specifications of the chat-session routes *)

\* what get_current_user resolves the two signed-in clients to
SessionUsers == {[user_id |-> "u1", email |-> "a@x.io"],
                 [user_id |-> "u2", email |-> "b@x.io"]}

SessionMessageLists ==
    { <<[role |-> "user", content |-> 3]>>,
      <<[role |-> "user", content |-> 3],
        [role |-> "assistant", content |-> 16000]>> }

\* seconds between one save and the next: inside and outside the hour
Elapsed == {1800, 3601}

\* Saves one user sends in the history scenario
MaxSaves == 6

\* Saves the two users send in the ownership scenario
MaxSharedSaves == 2

\* a signed-in client sends a request after the previous one was answered;
\* the clock has moved on by elapsed seconds
ClientSends(route, user, messages, sid, elapsed) ==
    /\ endpoint' = route
    /\ pc' = "recv"
    /\ current_user' = user
    /\ chat_data' = IF route = "chat-save"
                    THEN [user_id |-> user.user_id, messages |-> messages]
                    ELSE NoChatData
    /\ session_id' = sid
    /\ now' = now + elapsed
    /\ response' = NoResponse
    /\ save_response' = NoSaveResponse
    /\ UNCHANGED <<request, state, outcome, visited, calls, chat_sessions,
                   saves, authVars, transcript_search,
                    concVars>>

\* the service is up and no request was sent yet
IdleInit ==
    /\ endpoint = "none"
    /\ request = NoRequest
    /\ pc = "idle"
    /\ state = NoState
    /\ outcome = NoOutcome
    /\ visited = <<>>
    /\ calls = NoCalls
    /\ response = NoResponse
    /\ chat_data = NoChatData
    /\ chat_sessions = <<>>
    /\ save_response = NoSaveResponse
    /\ SessionsIdle
    /\ AuthIdle
    /\ SearchIdle
    /\ ConcIdle

\* one user saves again and again and lists the history in between
OwnerSendsSave ==
    /\ pc \in {"idle", "responded"}
    /\ Len(saves) < MaxSaves
    /\ \E user \in {u \in SessionUsers : u.user_id = "u1"},
          messages \in SessionMessageLists, elapsed \in Elapsed :
          ClientSends("chat-save", user, messages, "", elapsed)

OwnerSendsHistory ==
    /\ pc \in {"idle", "responded"}
    /\ endpoint # "chat-history"
    /\ \E user \in {u \in SessionUsers : u.user_id = "u1"} :
          ClientSends("chat-history", user, <<>>, "", 0)

HistoryNext ==
    \/ OwnerSendsSave
    \/ SaveChatSession
    \/ OwnerSendsHistory
    \/ GetChatHistory

HistorySpec == IdleInit /\ [][HistoryNext]_vars

\* session ids a client may put in the path: the ids handed out so far, one
\* that was never handed out, and text that is no ObjectId
SessionIds == {StrOfObjectId(oid) : oid \in 1..(MaxSharedSaves + 1)} \cup {"zz"}

\* two users save, read and delete sessions
UserSendsSave ==
    /\ pc \in {"idle", "responded"}
    /\ Len(saves) < MaxSharedSaves
    /\ \E user \in SessionUsers, messages \in SessionMessageLists,
          elapsed \in Elapsed :
          ClientSends("chat-save", user, messages, "", elapsed)

UserSendsHistory ==
    /\ pc \in {"idle", "responded"}
    /\ \E user \in SessionUsers :
          ClientSends("chat-history", user, <<>>, "", 0)

UserSendsGet ==
    /\ pc \in {"idle", "responded"}
    /\ \E user \in SessionUsers, sid \in SessionIds :
          ClientSends("chat-session-get", user, <<>>, sid, 0)

UserSendsDelete ==
    /\ pc \in {"idle", "responded"}
    /\ \E user \in SessionUsers, sid \in SessionIds :
          ClientSends("chat-session-delete", user, <<>>, sid, 0)

SessionNext ==
    \/ UserSendsSave
    \/ SaveChatSession
    \/ UserSendsHistory
    \/ GetChatHistory
    \/ UserSendsGet
    \/ GetChatSession
    \/ UserSendsDelete
    \/ DeleteChatSession

SessionSpec == IdleInit /\ [][SessionNext]_vars

-----------------------------------------------------------------------------
(* Properties of the chat-session routes *)

HistoryAnswered == endpoint = "chat-history" /\ pc = "responded"

\* every save of the log came more than an hour after the one before it
SavesAnHourApart ==
    \A i \in 1..(Len(saves) - 1) : saves[i + 1].at - saves[i].at > 3600

\* C11: of two consecutive saves by the same user less than 3600 seconds
\* apart, the second answers with the session id of the first and leaves
\* the user with as many sessions as the first left (one, for the first two
\* saves); the list stored under the answered id is that of the second save.
SavesWithinTheHourMerge ==
    \A i \in 1..(Len(saves) - 1) :
        (/\ saves[i + 1].user_id = saves[i].user_id
         /\ saves[i + 1].at - saves[i].at < 3600)
        => /\ saves[i + 1].session_id = saves[i].session_id
           /\ saves[i + 1].stored = saves[i].stored

\* C12: when every save came more than 3600 seconds after the previous
\* one, the history listing of that user holds at most 5 sessions.
HistoryHoldsAtMostFive ==
    (HistoryAnswered /\ SavesAnHourApart) => response.body.count <= 5

\* the session the path names exists and belongs to somebody else
ForeignSession ==
    \E i \in 1..Len(chat_sessions) :
        /\ chat_sessions[i]._id = ObjectId(session_id)
        /\ chat_sessions[i].user_id # current_user.user_id

\* C18: a GET or DELETE of /api/chat/session/{id} by a signed-in user,
\* where the id names an existing session of a different user, answers 404
\* with no body, and leaves the sessions collection, that session included,
\* as it was.
ForeignSessionIsNotFound ==
    [][(/\ pc = "recv"
        /\ endpoint \in {"chat-session-get", "chat-session-delete"}
        /\ ForeignSession)
       => /\ response'.status = 404
          /\ response'.body = NoBody
          /\ chat_sessions' = chat_sessions]_vars

ForeignDeleteAnswered ==
    /\ endpoint = "chat-session-delete"
    /\ pc = "responded"
    /\ ForeignSession
    /\ response.status = 404

-----------------------------------------------------------------------------
(* Accounts: POST /api/auth/signup, POST /api/auth/login, GET /api/auth/me *)

\* auth.py: the hash of a password; verification succeeds exactly for the
\* password that was hashed
GetPasswordHash(password) == "hash(" \o password \o ")"
VerifyPassword(plain_password, hashed_password) ==
    hashed_password = GetPasswordHash(plain_password)

\* auth.py: a signed token that carries the data and expires later
CreateAccessToken(data) ==
    [sub |-> data.sub, email |-> data.email, signed |-> TRUE,
     expired |-> FALSE]

\* auth.py: the user a credential resolves to; NoCurrentUser stands for the
\* 401 raised when the credential is absent, malformed, expired or not
\* signed by this service
GetCurrentUser(cred) ==
    IF cred.signed /\ ~cred.expired
    THEN [user_id |-> cred.sub, email |-> cred.email]
    ELSE NoCurrentUser

\* UserSignup.password: Field(..., min_length=6, max_length=72)
UserSignupValidNoMax(data) == Len(data.password) >= 6

UserSignupValid(data) ==
    Len(data.password) >= 6 /\ Len(data.password) <= 72

\* UserLogin.password: Field(..., max_length=72)
UserLoginValidMin6(data) ==
    Len(data.password) >= 6 /\ Len(data.password) <= 72

UserLoginValid(data) == Len(data.password) <= 72

\* the response to a body the request model rejects; the handler is not run
Unprocessable == Respond(HTTPException(422, "Unprocessable Entity"))

\* find_one({"email": email})
FindByName(docs, email) ==
    LET Hit(u) == u.name = email
    IN  SelectSeq(docs, Hit)

FindByEmail(docs, email) ==
    LET Hit(u) == u.email = email
    IN  SelectSeq(docs, Hit)

\* find_one({"_id": oid})
FindById(docs, oid) ==
    LET Hit(u) == u._id = oid
    IN  SelectSeq(docs, Hit)

DbCall(op, hit) == [op |-> op, hit |-> hit]

\* the data login signs into the token
LoginTokenDataByEmail(user) == [sub |-> user.email, email |-> user.email]

LoginTokenData(user) ==
    [sub |-> StrOfObjectId(user._id), email |-> user.email]

\* the body signup and login answer with
TokenBody(access_token, user_id, email, name) ==
    [access_token |-> access_token, token_type |-> "bearer",
     user |-> [id |-> user_id, email |-> email, name |-> name]]

Issued(route) == {t \in tokens : t.route = route}

\* POST /api/auth/signup
Signup ==
    /\ endpoint = "auth-signup"
    /\ pc = "recv"
    /\ IF ~UserSignupValid(user_data)
       THEN /\ response' = Unprocessable
            /\ UNCHANGED <<users, tokens, db_calls>>
       ELSE LET existing_user == FindByEmail(users, user_data.email)
                hashed_password == GetPasswordHash(user_data.password)
                inserted_id == Cardinality(Issued("signup")) + 1
                user_id == StrOfObjectId(inserted_id)
                access_token ==
                    CreateAccessToken([sub |-> user_id,
                                       email |-> user_data.email])
            IN  IF existing_user # <<>>
                THEN /\ response' = Respond(
                            HTTPException(400, "Email already registered"))
                     /\ db_calls' = <<DbCall("find_one", TRUE)>>
                     /\ UNCHANGED <<users, tokens>>
                ELSE /\ users' = Append(users,
                            [_id |-> inserted_id,
                             email |-> user_data.email,
                             name |-> user_data.name,
                             password |-> hashed_password,
                             created_at |-> now])
                     /\ db_calls' = <<DbCall("find_one", FALSE),
                                      DbCall("insert_one", TRUE)>>
                     /\ tokens' = tokens \cup
                            {[token |-> access_token, route |-> "signup",
                              account |-> inserted_id]}
                     /\ response' = Ok(TokenBody(access_token, user_id,
                                                 user_data.email,
                                                 user_data.name))
    /\ pc' = "responded"
    /\ UNCHANGED <<endpoint, request, state, outcome, visited, calls, saveVars,
                   sessVars, user_data, credential, transcript_search,
                    concVars>>

\* POST /api/auth/login
Login ==
    /\ endpoint = "auth-login"
    /\ pc = "recv"
    /\ IF ~UserLoginValid(user_data)
       THEN /\ response' = Unprocessable
            /\ UNCHANGED <<tokens, db_calls>>
       ELSE LET found == FindByEmail(users, user_data.email)
            IN  /\ db_calls' = <<DbCall("find_one", found # <<>>)>>
                /\ IF \/ found = <<>>
                      \/ ~VerifyPassword(user_data.password, found[1].password)
                   THEN /\ response' = Respond(
                               HTTPException(401, "Invalid email or password"))
                        /\ tokens' = tokens
                   ELSE LET user == found[1]
                            access_token ==
                                CreateAccessToken(LoginTokenData(user))
                        IN  /\ tokens' = tokens \cup
                                   {[token |-> access_token,
                                     route |-> "login",
                                     account |-> user._id]}
                            /\ response' =
                                   Ok(TokenBody(access_token,
                                                StrOfObjectId(user._id),
                                                user.email, user.name))
    /\ pc' = "responded"
    /\ UNCHANGED <<endpoint, request, state, outcome, visited, calls, saveVars,
                   sessVars, users, user_data, credential, transcript_search,
                    concVars>>

\* GET /api/auth/me
GetCurrentUserInfo ==
    /\ endpoint = "auth-me"
    /\ pc = "recv"
    /\ LET resolved == GetCurrentUser(credential)
           oid == ObjectId(resolved.user_id)
           user == FindById(users, oid)
       IN  /\ current_user' = resolved
           /\ IF resolved = NoCurrentUser
              THEN /\ response' = Respond(
                          HTTPException(401, "Could not validate credentials"))
                   /\ db_calls' = db_calls
              ELSE IF oid = 0
              THEN /\ response' = ExceptFault("InvalidId")
                   /\ db_calls' = db_calls
              ELSE /\ db_calls' = <<DbCall("find_one", user # <<>>)>>
                   /\ response' =
                         IF user = <<>>
                         THEN ExceptHTTP(HTTPException(404, "User not found"))
                         ELSE Ok([id |-> StrOfObjectId(user[1]._id),
                                  email |-> user[1].email,
                                  name |-> user[1].name])
    /\ pc' = "responded"
    /\ UNCHANGED <<endpoint, request, state, outcome, visited, calls, saveVars,
                   now, session_id, saves, users, user_data, credential,
                   tokens, transcript_search,
                    concVars>>

\* db.users belongs to a database server that other clients reach too: a
\* user document is removed there, which no route of app.py does
UserDocumentRemoved ==
    /\ users # <<>>
    /\ \E i \in 1..Len(users) : users' = RemoveAt(users, i)
    /\ UNCHANGED <<httpVars, saveVars, sessVars, user_data, credential,
                   tokens, db_calls, transcript_search,
                    concVars>>

Emails == {"a@x.io", "b@x.io"}
Names == {"Ann", "Bo"}

\* passwords of 5, 6, 8, 72 and 73 characters
Passwords ==
    LET Pw8 == "abcdefgh"
        Pw72 == Pw8 \o Pw8 \o Pw8 \o Pw8 \o Pw8 \o Pw8 \o Pw8 \o Pw8 \o Pw8
    IN  {"abcde", "abcdef", Pw8, Pw72, Pw72 \o "x"}

\* Accounts created before the clients stop signing up
MaxUsers == 2

\* what a client can put in the authorization header: nothing, a token it
\* was issued, such a token after it expired, or one with a broken signature
Credentials ==
    {NoCredential} \cup
    UNION {{t.token, [t.token EXCEPT !.expired = TRUE],
            [t.token EXCEPT !.signed = FALSE]} : t \in tokens}

\* a client sends a request to an account route after the previous one was
\* answered
AuthClientSends(route, data, cred) ==
    /\ endpoint' = route
    /\ pc' = "recv"
    /\ user_data' = data
    /\ credential' = cred
    /\ current_user' = NoCurrentUser
    /\ db_calls' = <<>>
    /\ response' = NoResponse
    /\ UNCHANGED <<request, state, outcome, visited, calls, saveVars,
                   now, session_id, saves, users, tokens, transcript_search,
                    concVars>>

ClientSendsSignup ==
    /\ pc \in {"idle", "responded"}
    /\ Cardinality(Issued("signup")) < MaxUsers
    /\ \E data \in [email : Emails, password : Passwords, name : Names] :
          AuthClientSends("auth-signup", data, NoCredential)

ClientSendsLogin ==
    /\ pc \in {"idle", "responded"}
    /\ \E data \in [email : Emails, password : Passwords, name : {""}] :
          AuthClientSends("auth-login", data, NoCredential)

ClientSendsMe ==
    /\ pc \in {"idle", "responded"}
    /\ \E cred \in Credentials : AuthClientSends("auth-me", NoUserData, cred)

AuthNext ==
    \/ ClientSendsSignup
    \/ Signup
    \/ ClientSendsLogin
    \/ Login
    \/ ClientSendsMe
    \/ GetCurrentUserInfo
    \/ UserDocumentRemoved

AuthSpec == IdleInit /\ [][AuthNext]_vars

-----------------------------------------------------------------------------
(* Properties of the account routes *)

\* the step in which the handler of a route answers the request in flight
Answers(route) == endpoint = route /\ pc = "recv" /\ pc' = "responded"
Answered(route) == endpoint = route /\ pc = "responded"

EmailTaken(email) == \E i \in 1..Len(users) : users[i].email = email

\* the password hashes stored with an email
StoredHashes(email) ==
    {users[i].password : i \in {j \in 1..Len(users) : users[j].email = email}}

\* C13: a signup whose email already has a user document (the earlier
\* signup with that email succeeded), and whose body the request model
\* accepts, is answered 400 with no token in the body; no token is issued
\* and the users collection stays as it was.
DuplicateEmailIsRejected ==
    [][(/\ Answers("auth-signup")
        /\ Len(user_data.password) >= 6
        /\ Len(user_data.password) <= 72
        /\ EmailTaken(user_data.email))
       => /\ response'.status = 400
          /\ response'.body = NoBody
          /\ tokens' = tokens
          /\ users' = users]_vars

DuplicateSignupAnswered ==
    /\ Answered("auth-signup")
    /\ EmailTaken(user_data.email)
    /\ response.status = 400
    /\ db_calls = <<DbCall("find_one", TRUE)>>

\* C14: a signup whose password has fewer than 6 or more than 72
\* characters is rejected (422) without any database operation: the users
\* collection is neither read nor written, and no token is issued.
BadPasswordLengthIsRejected ==
    [][(/\ Answers("auth-signup")
        /\ \/ Len(user_data.password) < 6
           \/ Len(user_data.password) > 72)
       => /\ response'.status = 422
          /\ response'.body = NoBody
          /\ db_calls' = <<>>
          /\ users' = users
          /\ tokens' = tokens]_vars

LongPasswordSignupAnswered ==
    /\ Answered("auth-signup")
    /\ Len(user_data.password) > 72
    /\ response.status = 422
    /\ db_calls = <<>>

\* the credential is a token a successful login returned, still valid
LoginTokens == {t \in tokens : t.route = "login" /\ t.token = credential}

\* C15: user documents are stored by signup and never altered afterwards;
\* GET /api/auth/me with an unexpired token that a successful login
\* returned, while the account's document is still stored, answers 200 with
\* the id, email and name of that document.
LoginTokenResolvesToAccount ==
    [][/\ \A i \in 1..Len(users) : \A j \in 1..Len(users') :
             users'[j]._id = users[i]._id => users'[j] = users[i]
       /\ \A t \in LoginTokens : \A i \in 1..Len(users) :
             (Answers("auth-me") /\ users[i]._id = t.account)
             => response' = Ok([id |-> StrOfObjectId(t.account),
                                email |-> users[i].email,
                                name |-> users[i].name])]_vars

LoginTokenAnswered ==
    /\ Answered("auth-me")
    /\ LoginTokens # {}
    /\ response.status = 200
    /\ response.body.name \in Names

\* C16: a login that the request model accepts, for an email that no user
\* document has or with a password that does not verify against the stored
\* hash, is answered 401 with no token in the body; no token is issued and
\* the users collection stays as it was.
FailedLoginAnswers401 ==
    [][(/\ Answers("auth-login")
        /\ Len(user_data.password) <= 72
        /\ \A hashed \in StoredHashes(user_data.email) :
              ~VerifyPassword(user_data.password, hashed))
       => /\ response'.status = 401
          /\ response'.body = NoBody
          /\ tokens' = tokens
          /\ users' = users]_vars

WrongPasswordAnswered ==
    /\ Answered("auth-login")
    /\ EmailTaken(user_data.email)
    /\ db_calls = <<DbCall("find_one", TRUE)>>
    /\ response.status = 401

\* C17: GET /api/auth/me with a valid token whose user id has no user
\* document is answered 404.
MissingUserAnswers404 ==
    (/\ Answered("auth-me")
     /\ GetCurrentUser(credential) # NoCurrentUser
     /\ db_calls = <<DbCall("find_one", FALSE)>>)
    => response.status = 404

-----------------------------------------------------------------------------
(* search_for_any_transcript (earnings.py), result by result.  Titles,   *)
(* URLs and contents are strings and the tests on them are the substring *)
(* tests of the code.                                                    *)

\* quarter_months
QuarterMonths(quarter) ==
    CASE quarter = "Q1" ->
            <<"January", "February", "March", "Jan", "Feb", "Mar">>
      [] quarter = "Q2" -> <<"April", "May", "June", "Apr", "May", "Jun">>
      [] quarter = "Q3" ->
            <<"July", "August", "September", "Jul", "Aug", "Sep">>
      [] quarter = "Q4" ->
            <<"October", "November", "December", "Oct", "Nov", "Dec">>

\* queries
Queries(ticker, quarter, year) ==
    << ticker \o " " \o quarter \o " " \o year \o " earnings call transcript",
       ticker \o " earnings call transcript " \o quarter \o " " \o year,
       ticker \o " " \o QuarterMonths(Upper(quarter))[1] \o " " \o year
          \o " earnings" >>

\* calendar_quarter_patterns
CalendarQuarterPatternsPunctuated(quarter, year) ==
    << quarter \o ", " \o year, quarter \o "-" \o year >>

CalendarQuarterPatterns(quarter, year) ==
    << quarter \o " " \o year,
       quarter \o ", " \o year,
       quarter \o "-" \o year >>

\* the test that rejects a result as a fiscal-year result
FiscalYearResultNever(combined_text, year) == FALSE

FiscalYearResult(combined_text, year) ==
    /\ Contains("fy", combined_text)
    /\ Contains("fy" \o SubSeq(year, Len(year) - 1, Len(year)),
                RemoveSpaces(combined_text))

\* source, from the URL of the match
ClassifySource(url) ==
    IF Contains("seekingalpha.com", url) THEN "Seeking Alpha"
    ELSE IF Contains("fool.com", url) THEN "The Motley Fool"
    ELSE IF Contains("finance.yahoo.com", url) THEN "Yahoo Finance"
    ELSE IF Contains("ir.", url) \/ Contains("investor", url)
    THEN "Company IR"
    ELSE "Other"

\* one pass of the body of `for idx, result in enumerate(results)`: TRUE
\* when the pass reaches the return statement, FALSE when it ends in a
\* continue or falls through
Accepted(result, ticker, quarter, year) ==
    LET url == result.url
        title == result.title
        content == result.content
        is_transcript ==
            \/ Contains("transcript", Lower(title))
            \/ Contains("transcript", Lower(url))
            \/ Contains("earnings call", Lower(title))
        same_company ==
            \/ Contains(Lower(ticker), Lower(title))
            \/ Contains(Lower(ticker), Lower(url))
        calendar_quarter_patterns ==
            CalendarQuarterPatterns(Upper(quarter), year)
        relevant_months == QuarterMonths(Upper(quarter))
        combined_text == Lower(title \o " " \o url \o " " \o content)
        has_calendar_quarter ==
            \/ \E k \in 1..Len(calendar_quarter_patterns) :
                  Contains(Lower(calendar_quarter_patterns[k]), combined_text)
            \/ \E k \in 1..Len(relevant_months) :
                  /\ Contains(Lower(relevant_months[k]), combined_text)
                  /\ Contains(year, combined_text)
        has_year ==
            \/ Contains(year, title)
            \/ Contains(year, url)
            \/ Contains(year, content)
    IN  /\ is_transcript
        /\ same_company
        /\ ~FiscalYearResult(combined_text, year)
        /\ has_calendar_quarter
        /\ has_year

Result(title, url, content) ==
    [title |-> title, url |-> url, content |-> content]

\* results the search service may return to a search for AAPL
SearchResults ==
    { Result("AAPL Q1 2024 Earnings Call Transcript",
             "https://seekingalpha.com/aapl-q1", "Revenue grew"),
      Result("AAPL FY24 Q1 2024 Earnings Call Transcript",
             "https://www.fool.com/aapl-call", ""),
      Result("AAPL FY24 Earnings Call Transcript",
             "https://finance.yahoo.com/aapl", "Fiscal first quarter"),
      Result("AAPL Earnings Call Transcript",
             "https://ir.aapl.com/call", "Summary of FY24 results 2024"),
      Result("AAPL Earnings Call Transcript",
             "https://investor.apple.com/aapl", "January 2024 results"),
      Result("AAPL stock news Q1 2024",
             "https://news.example.com/aapl", "Shares rose"),
      Result("MSFT Q1 2024 Earnings Call Transcript",
             "https://www.fool.com/msft-call", "Cloud revenue"),
      Result("AAPL Q1 Earnings Call Transcript",
             "https://www.example.com/aapl", "Record quarter") }

\* the searches made: ticker, quarter code as passed, year
Searches == [ticker : {"AAPL"}, quarter : {"Q1", "q1", "Q3"}, year : {"2024"}]

\* the searches and results Accepted holds for, decided pair by pair
AcceptedResults ==
    LET P(a, result) == Accepted(result, a.ticker, a.quarter, a.year)
    IN  UNION {IF P(x[1], x[2]) THEN {x} ELSE {} :
                  x \in Searches \X SearchResults}

RECURSIVE Examine(_, _)
\* the passes the results loop makes over one response, in order, each with
\* its outcome; the loop ends with the first result that is accepted
Examine(results, search) ==
    IF results = <<>> THEN <<>>
    ELSE LET accepted == <<search, Head(results)>> \in AcceptedResults
         IN  <<[result |-> Head(results), accepted |-> accepted]>>
             \o (IF accepted THEN <<>> ELSE Examine(Tail(results), search))

\* Results in one response of the search service (the code asks for 10)
MaxResults == 2

ResultLists == UNION {[1..n -> SearchResults] : n \in 0..MaxResults}

\* search_for_any_transcript was called with a valid quarter code
SearchInit ==
    /\ endpoint = "none"
    /\ request = NoRequest
    /\ pc = "query"
    /\ outcome = NoOutcome
    /\ visited = <<>>
    /\ calls = NoCalls
    /\ response = NoResponse
    /\ chat_data = NoChatData
    /\ chat_sessions = <<>>
    /\ save_response = NoSaveResponse
    /\ SessionsIdle
    /\ AuthIdle
    /\ ConcIdle
    /\ \E a \in Searches :
          /\ state = InitialState(a.ticker, a.quarter, a.year)
          /\ transcript_search =
                [NoSearch EXCEPT !.ticker = a.ticker, !.quarter = a.quarter,
                                 !.year = a.year]

\* one turn of `for query in queries`: the search call, which returns a
\* list of results or raises, and the loop over the results
SearchQuery ==
    /\ pc = "query"
    /\ Len(transcript_search.queries) < 3
    /\ LET ticker == transcript_search.ticker
           quarter == transcript_search.quarter
           year == transcript_search.year
           query == Queries(ticker, quarter, year)
                       [Len(transcript_search.queries) + 1]
           issued == [transcript_search EXCEPT !.queries = Append(@, query)]
       IN  \E fault \in BOOLEAN, results \in ResultLists :
             /\ fault => results = <<>>
             /\ LET examined ==
                        Examine(results, [ticker |-> ticker,
                                          quarter |-> quarter, year |-> year])
                    matched == examined # <<>> /\ Last(examined).accepted
                    result == Last(examined).result
                IN  /\ transcript_search' =
                          [issued EXCEPT
                             !.response = results,
                             !.fault = fault,
                             !.examined = examined,
                             !.result =
                                IF matched
                                THEN [found |-> TRUE, url |-> result.url,
                                      title |-> result.title,
                                      source |-> ClassifySource(result.url),
                                      error |-> None]
                                ELSE NoBody]
                    /\ pc' = IF matched THEN "returned" ELSE "query"
    /\ UNCHANGED <<endpoint, request, state, outcome, visited, calls,
                   response, saveVars, sessVars, authVars, concVars>>

\* no query gave a match
SearchNotFound ==
    /\ pc = "query"
    /\ Len(transcript_search.queries) = 3
    /\ transcript_search' =
          [transcript_search EXCEPT
             !.result =
                [found |-> FALSE, url |-> None, title |-> None,
                 source |-> None,
                 error |-> "No calendar " \o transcript_search.quarter
                           \o " " \o transcript_search.year
                           \o " earnings found for "
                           \o transcript_search.ticker]]
    /\ pc' = "returned"
    /\ UNCHANGED <<endpoint, request, state, outcome, visited, calls,
                   response, saveVars, sessVars, authVars, concVars>>

\* search_node has the value of the search and route_after_search chooses
\* the retry node, which calls search_node, and with it the search, again;
\* the queries of the finished search are kept in `earlier`
SearchRetried ==
    /\ pc = "returned"
    /\ Len(visited) < MaxSupersteps
    /\ LET result == transcript_search.result
           out == [op |-> "search", kind |-> "return",
                   found |-> result.found, url |-> result.url,
                   source |-> result.source, error |-> result.error]
           searched == SearchNodeBody(state, out)
       IN  /\ RouteAfterSearch(searched) = "retry"
           /\ state' = RetryNodeHead(searched)
    /\ visited' = Append(visited, "search")
    /\ transcript_search' =
          [transcript_search EXCEPT
             !.earlier = @ \o transcript_search.queries,
             !.queries = <<>>, !.response = <<>>, !.fault = FALSE,
             !.examined = <<>>, !.result = NoBody]
    /\ pc' = "query"
    /\ UNCHANGED <<endpoint, request, outcome, calls, response, saveVars,
                   sessVars, authVars, concVars>>

SearchNext ==
    \/ SearchQuery
    \/ SearchNotFound

SearchSpec == SearchInit /\ [][SearchNext]_vars

\* the search as search_node calls it: with the quarter of the workflow
\* state, which is upper-cased
SearchRunInit ==
    /\ SearchInit
    /\ transcript_search.quarter = state.quarter

SearchRunNext ==
    \/ SearchQuery
    \/ SearchNotFound
    \/ SearchRetried

SearchRunSpec == SearchRunInit /\ [][SearchRunNext]_vars

-----------------------------------------------------------------------------
(* extract_transcript_content (earnings.py) on its own: one call, with   *)
(* the answers of Tavily kept beside its return value                    *)

ExtractInit ==
    /\ endpoint = "none"
    /\ request = NoRequest
    /\ pc = "extract"
    /\ state = NoState
    /\ outcome = NoOutcome
    /\ visited = <<>>
    /\ calls = NoCalls
    /\ response = NoResponse
    /\ chat_data = NoChatData
    /\ chat_sessions = <<>>
    /\ save_response = NoSaveResponse
    /\ SessionsIdle
    /\ AuthIdle
    /\ SearchIdle
    /\ events = <<>>
    /\ tasks = <<>>
    /\ tavily \in TavilyResponses

ExtractTranscript ==
    /\ endpoint = "none"
    /\ pc = "extract"
    /\ outcome' = ExtractTranscriptContent(tavily)
    /\ calls' = [calls EXCEPT !.extract = @ + 1]
    /\ pc' = "returned"
    /\ UNCHANGED <<endpoint, request, state, visited, response, saveVars,
                   otherVars>>

ExtractNext == ExtractTranscript

ExtractSpec == ExtractInit /\ [][ExtractNext]_vars

-----------------------------------------------------------------------------
(* Handlers as coroutines.  The event loop runs the handlers of several   *)
(* requests at once and switches between them where a handler awaits the *)
(* database; each step below is the code of one handler from one await   *)
(* to the next.                                                          *)

Coroutines == {1, 2}

NoTask ==
    [route |-> "none", handler |-> "", user_id |-> "",
     user_data |-> NoUserData, sid |-> "", pc |-> "idle", existing_id |-> 0,
     utcnow |-> 0, prune |-> FALSE, to_delete |-> {}, session_id |-> "",
     status |-> 0]

\* every function registered for POST /api/chat/save
SaveHandlers ==
    {Routes[i].handler :
        i \in {j \in DOMAIN Routes : Routes[j].route = "chat-save"}}

StoredMessages == <<[role |-> "user", content |-> 3]>>
SentMessages == <<[role |-> "user", content |-> 3],
                  [role |-> "assistant", content |-> 5]>>

\* chat_sessions as earlier saves, each more than an hour after the one
\* before, left it: of is the owner of each session
Stored(of) ==
    [i \in 1..Len(of) |->
        SessionDoc(i, of[i], StoredMessages, (i - 1) * 3601)]

StoredOwners ==
    {<<>>, <<"u1">>, <<"u1", "u1", "u1", "u1", "u1", "u2">>}

\* the log of the saves that stored the sessions
StoredSaves(sessions) ==
    [i \in 1..Len(sessions) |->
        [user_id |-> sessions[i].user_id, at |-> sessions[i].updated_at,
         session_id |-> StrOfObjectId(sessions[i]._id),
         messages |-> sessions[i].messages,
         stored |-> Len(SessionsOf(SubSeq(sessions, 1, i),
                                   sessions[i].user_id))]]

\* the account an earlier signup left, with the token it was answered
StoredAccount ==
    [_id |-> 1, email |-> "a@x.io", name |-> "Ann",
     password |-> GetPasswordHash("abcdef"), created_at |-> 0]

SignupPayloads ==
    {[email |-> e, password |-> "abcdef", name |-> n] :
        e \in Emails, n \in Names}

DeleteIds == {"1", "6"}

ConcurrentInit ==
    /\ endpoint = "none"
    /\ request = NoRequest
    /\ pc = "idle"
    /\ state = NoState
    /\ outcome = NoOutcome
    /\ visited = <<>>
    /\ calls = NoCalls
    /\ response = NoResponse
    /\ chat_data = NoChatData
    /\ save_response = NoSaveResponse
    /\ current_user = NoCurrentUser
    /\ session_id = ""
    /\ user_data = NoUserData
    /\ credential = NoCredential
    /\ db_calls = <<>>
    /\ SearchIdle
    /\ events = <<>>
    /\ tavily = NoTavily
    /\ \E of \in StoredOwners, elapsed \in Elapsed :
          /\ chat_sessions = Stored(of)
          /\ saves = StoredSaves(Stored(of))
          /\ now = (IF of = <<>> THEN 0 ELSE (Len(of) - 1) * 3601) + elapsed
    /\ \E signed_up \in BOOLEAN :
          /\ users = IF signed_up THEN <<StoredAccount>> ELSE <<>>
          /\ tokens = IF signed_up
                      THEN {[token |-> CreateAccessToken(
                                          [sub |-> StrOfObjectId(1),
                                           email |-> StoredAccount.email]),
                             route |-> "signup", account |-> 1]}
                      ELSE {}
    /\ tasks = [c \in Coroutines |-> NoTask]

\* the task of coroutine c becomes t
Becomes(c, t) == tasks' = [tasks EXCEPT ![c] = t]

\* POST /api/chat/save arrives and a handler is started on it, up to its
\* first await
SaveRequested(c) ==
    /\ tasks[c] = NoTask
    /\ \E user \in SessionUsers, handler \in SaveHandlers :
          Becomes(c, [NoTask EXCEPT
                        !.route = "chat-save", !.handler = handler,
                        !.user_id = user.user_id, !.utcnow = now,
                        !.pc = IF handler = "save_chat_session@380"
                               THEN "insert_one" ELSE "find_one"])
    /\ UNCHANGED <<httpVars, saveVars, sessVars, authVars, transcript_search,
                   events, tavily>>

\* second definition: find_one returned; chat_session is built, the age of
\* the session found is tested, and update_one or insert_one is awaited
SaveFindOne(c) ==
    /\ tasks[c].route = "chat-save"
    /\ tasks[c].pc = "find_one"
    /\ LET mine == SortUpdatedDesc(SessionsOf(chat_sessions, tasks[c].user_id))
       IN  Becomes(c, [tasks[c] EXCEPT
                         !.existing_id = IF mine = <<>> THEN 0
                                         ELSE mine[1]._id,
                         !.utcnow = now,
                         !.prune = mine # <<>>,
                         !.pc = IF mine # <<>>
                                   /\ now - mine[1].updated_at < 3600
                                THEN "update_one" ELSE "insert_one"])
    /\ UNCHANGED <<httpVars, saveVars, sessVars, authVars, transcript_search,
                   events, tavily>>

\* second definition: update_one returned and the handler returns
SaveUpdateOne(c) ==
    /\ tasks[c].route = "chat-save"
    /\ tasks[c].pc = "update_one"
    /\ chat_sessions' =
          SetSession(chat_sessions, tasks[c].existing_id, tasks[c].user_id,
                     SentMessages, tasks[c].utcnow)
    /\ saves' = Append(saves,
          [user_id |-> tasks[c].user_id, at |-> tasks[c].utcnow,
           session_id |-> StrOfObjectId(tasks[c].existing_id),
           messages |-> SentMessages,
           stored |-> Len(SessionsOf(chat_sessions', tasks[c].user_id))])
    /\ Becomes(c, [tasks[c] EXCEPT
                     !.session_id = StrOfObjectId(tasks[c].existing_id),
                     !.status = 200, !.pc = "done"])
    /\ UNCHANGED <<httpVars, chat_data, save_response, now, current_user,
                   session_id, authVars, transcript_search, events, tavily>>

\* either definition: insert_one returned; the first definition and the
\* branch without an earlier session return, the other branch awaits find
SaveInsertOne(c) ==
    /\ tasks[c].route = "chat-save"
    /\ tasks[c].pc = "insert_one"
    /\ LET inserted_id == Len(saves) + 1
       IN  /\ chat_sessions' =
                 Append(chat_sessions,
                        SessionDoc(inserted_id, tasks[c].user_id,
                                   SentMessages, tasks[c].utcnow))
           /\ saves' = Append(saves,
                 [user_id |-> tasks[c].user_id, at |-> tasks[c].utcnow,
                  session_id |-> StrOfObjectId(inserted_id),
                  messages |-> SentMessages,
                  stored |-> Len(SessionsOf(chat_sessions',
                                            tasks[c].user_id))])
           /\ Becomes(c, [tasks[c] EXCEPT
                            !.session_id = StrOfObjectId(inserted_id),
                            !.status = IF tasks[c].prune THEN 0 ELSE 200,
                            !.pc = IF tasks[c].prune THEN "find"
                                   ELSE "done"])
    /\ UNCHANGED <<httpVars, chat_data, save_response, now, current_user,
                   session_id, authVars, transcript_search, events, tavily>>

\* second definition: the user's sessions, newest first, were listed; past
\* five of them delete_many is awaited
SaveFind(c) ==
    /\ tasks[c].route = "chat-save"
    /\ tasks[c].pc = "find"
    /\ LET all_sessions ==
              Limit(SortUpdatedDesc(
                        SessionsOf(chat_sessions, tasks[c].user_id)), 100)
           sessions_to_delete ==
              {all_sessions[i]._id : i \in 6..Len(all_sessions)}
       IN  Becomes(c, [tasks[c] EXCEPT
                         !.to_delete = sessions_to_delete,
                         !.status = IF Len(all_sessions) > 5 THEN 0 ELSE 200,
                         !.pc = IF Len(all_sessions) > 5
                                THEN "delete_many" ELSE "done"])
    /\ UNCHANGED <<httpVars, saveVars, sessVars, authVars, transcript_search,
                   events, tavily>>

\* second definition: delete_many returned and the handler returns
SaveDeleteMany(c) ==
    /\ tasks[c].route = "chat-save"
    /\ tasks[c].pc = "delete_many"
    /\ LET Kept(s) == s._id \notin tasks[c].to_delete
       IN  chat_sessions' = SelectSeq(chat_sessions, Kept)
    /\ Becomes(c, [tasks[c] EXCEPT !.status = 200, !.pc = "done"])
    /\ UNCHANGED <<httpVars, chat_data, save_response, sessVars, authVars,
                   transcript_search, events, tavily>>

\* DELETE /api/chat/session/{session_id} arrives
DeleteRequested(c) ==
    /\ tasks[c] = NoTask
    /\ \E user \in SessionUsers, sid \in DeleteIds :
          Becomes(c, [NoTask EXCEPT
                        !.route = "chat-session-delete",
                        !.handler = "delete_chat_session",
                        !.user_id = user.user_id, !.sid = sid,
                        !.pc = "delete_one"])
    /\ UNCHANGED <<httpVars, saveVars, sessVars, authVars, transcript_search,
                   events, tavily>>

\* delete_chat_session: delete_one returned and the handler answers
DeleteOne(c) ==
    /\ tasks[c].route = "chat-session-delete"
    /\ tasks[c].pc = "delete_one"
    /\ LET oid == ObjectId(tasks[c].sid)
           found == FindSession(chat_sessions, oid, tasks[c].user_id)
           Stays(s) == found = <<>> \/ s._id # found[1]._id
       IN  /\ chat_sessions' = SelectSeq(chat_sessions, Stays)
           /\ Becomes(c, [tasks[c] EXCEPT
                            !.status = IF oid = 0 THEN 500
                                       ELSE IF found = <<>> THEN 404
                                       ELSE 200,
                            !.pc = "done"])
    /\ UNCHANGED <<httpVars, chat_data, save_response, sessVars, authVars,
                   transcript_search, events, tavily>>

\* POST /api/auth/signup arrives with a body the request model accepts
SignupRequested(c) ==
    /\ tasks[c] = NoTask
    /\ \E data \in SignupPayloads :
          /\ UserSignupValid(data)
          /\ Becomes(c, [NoTask EXCEPT
                           !.route = "auth-signup", !.handler = "signup",
                           !.user_data = data, !.pc = "find_one"])
    /\ UNCHANGED <<httpVars, saveVars, sessVars, authVars, transcript_search,
                   events, tavily>>

\* signup: find_one returned; a taken email is answered 400, otherwise the
\* password is hashed, user_doc is built and insert_one is awaited
SignupFindOne(c) ==
    /\ tasks[c].route = "auth-signup"
    /\ tasks[c].pc = "find_one"
    /\ LET existing_user == FindByEmail(users, tasks[c].user_data.email)
       IN  Becomes(c, [tasks[c] EXCEPT
                         !.utcnow = now,
                         !.status = IF existing_user # <<>> THEN 400 ELSE 0,
                         !.pc = IF existing_user # <<>> THEN "done"
                                ELSE "insert_one"])
    /\ UNCHANGED <<httpVars, saveVars, sessVars, authVars, transcript_search,
                   events, tavily>>

\* signup: insert_one returned; the token is made and the handler answers
SignupInsertOne(c) ==
    /\ tasks[c].route = "auth-signup"
    /\ tasks[c].pc = "insert_one"
    /\ LET data == tasks[c].user_data
           inserted_id == Cardinality(Issued("signup")) + 1
           user_id == StrOfObjectId(inserted_id)
           access_token ==
               CreateAccessToken([sub |-> user_id, email |-> data.email])
       IN  /\ users' = Append(users,
                 [_id |-> inserted_id, email |-> data.email,
                  name |-> data.name,
                  password |-> GetPasswordHash(data.password),
                  created_at |-> tasks[c].utcnow])
           /\ tokens' = tokens \cup
                 {[token |-> access_token, route |-> "signup",
                   account |-> inserted_id]}
           /\ Becomes(c, [tasks[c] EXCEPT
                            !.user_id = user_id, !.status = 200,
                            !.pc = "done"])
    /\ UNCHANGED <<httpVars, saveVars, sessVars, user_data, credential,
                   db_calls, transcript_search, events, tavily>>

ConcurrentSessionNext ==
    \E c \in Coroutines :
        \/ SaveRequested(c)
        \/ SaveFindOne(c)
        \/ SaveUpdateOne(c)
        \/ SaveInsertOne(c)
        \/ SaveFind(c)
        \/ SaveDeleteMany(c)
        \/ DeleteRequested(c)
        \/ DeleteOne(c)

ConcurrentSessionSpec == ConcurrentInit /\ [][ConcurrentSessionNext]_vars

ConcurrentSignupNext ==
    \E c \in Coroutines :
        \/ SignupRequested(c)
        \/ SignupFindOne(c)
        \/ SignupInsertOne(c)

ConcurrentSignupSpec == ConcurrentInit /\ [][ConcurrentSignupNext]_vars

-----------------------------------------------------------------------------
(* Properties of the transcript search *)

\* the search in progress
Searched ==
    [ticker |-> transcript_search.ticker,
     quarter |-> transcript_search.quarter,
     year |-> transcript_search.year]

\* title, URL and content of a result as one text
CombinedText(result) ==
    result.title \o " " \o result.url \o " " \o result.content

\* the last two digits of the year
YY(year) == SubSeq(year, Len(year) - 1, Len(year))

\* the result mentions a transcript or an earnings call, and the ticker
PassesFilters(result, ticker) ==
    /\ \/ Contains("transcript", Lower(result.title))
       \/ Contains("transcript", Lower(result.url))
       \/ Contains("earnings call", Lower(result.title))
    /\ \/ Contains(Lower(ticker), Lower(result.title))
       \/ Contains(Lower(ticker), Lower(result.url))

\* searches and results where the result passes both filters and carries
\* the phrase "Q Y"
QuarterPhraseResults ==
    LET P(a, result) ==
            /\ PassesFilters(result, a.ticker)
            /\ Contains(Upper(a.quarter) \o " " \o a.year,
                        CombinedText(result))
    IN  UNION {IF P(x[1], x[2]) THEN {x} ELSE {} :
                  x \in Searches \X SearchResults}

\* searches and results where the text carries "FY" and the last two digits
\* of the year, whatever the case and the spacing
FiscalYearMarked ==
    LET P(a, result) ==
            Contains("fy" \o YY(a.year),
                     RemoveSpaces(Lower(CombinedText(result))))
    IN  UNION {IF P(x[1], x[2]) THEN {x} ELSE {} :
                  x \in Searches \X SearchResults}

\* searches and results where the text has "FY" and the last two digits of
\* the year, no calendar quarter phrase of the searched quarter and year,
\* and no month name of the quarter together with the year
FiscalYearOnly ==
    LET P(a, result) ==
            LET text == CombinedText(result)
                phrases == CalendarQuarterPatterns(Upper(a.quarter), a.year)
                months == QuarterMonths(Upper(a.quarter))
            IN  /\ Contains("FY" \o YY(a.year), text)
                /\ \A k \in 1..Len(phrases) : ~Contains(phrases[k], text)
                /\ ~(/\ \E k \in 1..Len(months) : Contains(months[k], text)
                     /\ Contains(a.year, text))
    IN  UNION {IF P(x[1], x[2]) THEN {x} ELSE {} :
                  x \in Searches \X SearchResults}

\* fiscal-year-only results that pass both filters and name the year
FiscalYearOnlyCandidates ==
    LET P(a, result) ==
            /\ PassesFilters(result, a.ticker)
            /\ Contains(a.year, CombinedText(result))
    IN  UNION {IF P(x[1], x[2]) THEN {x} ELSE {} : x \in FiscalYearOnly}

\* the result is the one the search returned
IsTheMatch(result) ==
    /\ pc = "returned"
    /\ transcript_search.result.found
    /\ transcript_search.result.url = result.url
    /\ transcript_search.result.title = result.title

\* C19 as stated: every result the loop examines that passes the
\* transcript and ticker filters and whose combined text contains the
\* phrase "Q Y" is accepted.
QuarterPhraseResultIsAccepted ==
    \A k \in 1..Len(transcript_search.examined) :
        <<Searched, transcript_search.examined[k].result>>
            \in QuarterPhraseResults
        => transcript_search.examined[k].accepted

\* C19 amended: every result the loop examines that passes the transcript
\* and ticker filters, whose combined text contains the phrase "Q Y" and
\* does not contain, case and spaces ignored, "FY" followed by the last two
\* digits of Y, is accepted and is returned as the match.
QuarterPhraseResultWithoutFYIsAccepted ==
    \A k \in 1..Len(transcript_search.examined) :
        LET result == transcript_search.examined[k].result
        IN  (/\ <<Searched, result>> \in QuarterPhraseResults
             /\ <<Searched, result>> \notin FiscalYearMarked)
            => /\ transcript_search.examined[k].accepted
               /\ IsTheMatch(result)

QuarterPhraseResultMatched ==
    \E k \in 1..Len(transcript_search.examined) :
        LET result == transcript_search.examined[k].result
        IN  /\ <<Searched, result>> \in QuarterPhraseResults
            /\ <<Searched, result>> \notin FiscalYearMarked
            /\ IsTheMatch(result)
            /\ transcript_search.result.source = "Seeking Alpha"

\* the query just issued was the first of its search, or the query before
\* it faulted, or every result of the query before it was rejected
PreviousQueryExhausted ==
    \/ transcript_search.queries = <<>>
    \/ transcript_search.fault
    \/ /\ Len(transcript_search.examined) = Len(transcript_search.response)
       /\ \A k \in 1..Len(transcript_search.examined) :
             ~transcript_search.examined[k].accepted

\* C22: within one search the three queries are issued one at a time in
\* their fixed order; a query is issued only after the query before it
\* faulted or had every result rejected, and none after a result matched;
\* one search makes at most three search calls and one workflow run, with
\* its single retry, at most six.
QueriesIssuedInOrder ==
    /\ [](/\ Len(transcript_search.queries) <= 3
          /\ transcript_search.queries =
                SubSeq(Queries(Searched.ticker, Searched.quarter,
                               Searched.year),
                       1, Len(transcript_search.queries))
          /\ Len(transcript_search.earlier)
                + Len(transcript_search.queries) <= 6)
    /\ [][Len(transcript_search.queries') > Len(transcript_search.queries) =>
             /\ Len(transcript_search.queries')
                   = Len(transcript_search.queries) + 1
             /\ PreviousQueryExhausted
             /\ transcript_search.result = NoBody]_vars

RetriedSearchIssuedSixQueries ==
    /\ pc = "returned"
    /\ Len(transcript_search.earlier) = 3
    /\ Len(transcript_search.queries) = 3
    /\ transcript_search.result.found = FALSE

\* C20: a result with the fiscal-year marker, no calendar-quarter phrase
\* and no month name of the quarter together with the year is not accepted
\* by the loop and is not the match the search returns.
FiscalYearOnlyResultIsNeverTheMatch ==
    /\ \A k \in 1..Len(transcript_search.examined) :
          <<Searched, transcript_search.examined[k].result>>
              \in FiscalYearOnly
          => ~transcript_search.examined[k].accepted
    /\ \A x \in FiscalYearOnly : x[1] = Searched => ~IsTheMatch(x[2])

FiscalYearOnlyResultPassedOver ==
    /\ pc = "returned"
    /\ \E k \in 1..Len(transcript_search.examined) :
          /\ <<Searched, transcript_search.examined[k].result>>
                \in FiscalYearOnlyCandidates
          /\ ~transcript_search.examined[k].accepted

-----------------------------------------------------------------------------
(* Properties of the earnings workflow and its route *)

WorkflowNodes == {"search", "retry", "extract", "summarize"}

RECURSIVE Count(_, _)
Count(seq, x) ==
    IF seq = <<>> THEN 0
    ELSE (IF Head(seq) = x THEN 1 ELSE 0) + Count(Tail(seq), x)

RECURSIVE IsSubseq(_, _)
\* the entries of sub occur in seq, in the order of sub
IsSubseq(sub, seq) ==
    IF sub = <<>> THEN TRUE
    ELSE IF seq = <<>> THEN FALSE
    ELSE IF Head(sub) = Head(seq) THEN IsSubseq(Tail(sub), Tail(seq))
    ELSE IsSubseq(sub, Tail(seq))

IsSuffix(s, t) ==
    /\ Len(s) <= Len(t)
    /\ s = SubSeq(t, Len(t) - Len(s) + 1, Len(t))

AnalyzeDone == endpoint = "earnings-analyze" /\ pc = "responded"
WorkflowRan == visited # <<>>

\* the last call of the run did not deliver: nothing found, nothing
\* extracted, or a fault
StepFailed(out) ==
    \/ out.kind = "raise"
    \/ out.op = "search" /\ ~out.found
    \/ out.op = "extract" /\ ~out.success

\* the entry each node opens with
OpeningEntry(node) ==
    CASE node = "search"    -> SearchingMsg(state.quarter, state.year)
      [] node = "retry"     -> RetryingMsg
      [] node = "extract"   -> ExtractingMsg
      [] node = "summarize" -> AnalyzingMsg

\* C1: a search step that ends with an error set is followed by the retry
\* step when it is the first search and by the end of the run when it is the
\* retried search; the retry step sets the retry counter to 1 and issues the
\* search again; the retry step runs at most once, the counter never exceeds
\* 1, and a run that ends with the error set returns that error.
RetryExactlyOnce ==
    [][/\ (pc = "search" /\ Truthy(state'.error)) => pc' = "retry"
       /\ pc = "retry" => /\ state'.retry_count = 1
                          /\ calls'.search = calls.search + 1
                          /\ visited = <<"search">>
       /\ (pc = "retry" /\ Truthy(state'.error)) => pc' = "END"
       /\ state'.retry_count <= 1
       /\ Count(visited', "retry") <= 1
       /\ (pc = "END" /\ Truthy(state.error))
             => response'.body.error = state.error]_vars

SearchFailedTwice ==
    /\ AnalyzeDone
    /\ visited = <<"search", "retry">>
    /\ state.retry_count = 1
    /\ Truthy(response.body.error)

\* C2: from every position inside the workflow the run reaches the end
\* state, whatever the search, extract and summarize calls produce.
WorkflowTerminates == [](pc \in WorkflowNodes => <>(pc = "END"))

LongestRunEnded ==
    /\ pc = "END"
    /\ visited = <<"search", "retry", "extract", "summarize">>

\* C3: extract runs only after a search or retried search that left no
\* error and a transcript URL; summarize runs only after an extract that
\* left transcript content and no error; a result with a summary has
\* transcript content and a source URL.
StepsRunOnlyOnSuccess ==
    /\ pc = "extract" =>
          /\ Last(visited) \in {"search", "retry"}
          /\ ~Truthy(state.error)
          /\ Truthy(state.transcript_url)
    /\ pc = "summarize" =>
          /\ Last(visited) = "extract"
          /\ state.transcript_content > 0
          /\ ~Truthy(state.error)
    /\ Count(visited, "extract") > 0 => Truthy(state.transcript_url)
    /\ Count(visited, "summarize") > 0 => state.transcript_content > 0
    /\ (AnalyzeDone /\ response.status = 200 /\ Truthy(response.body.summary))
          => /\ state.transcript_content > 0
             /\ Truthy(response.body.source_url)

SummaryReturned ==
    /\ AnalyzeDone
    /\ response.status = 200
    /\ Truthy(response.body.summary)

\* C4: a fault of the search, extract or summarize call is stored in the
\* error field and narrated as the last entry, the run goes on to a position
\* the routing chose, and a run that executed a node answers 200 with the
\* result, the fault in its error field when the fault ended the run.
FaultsAreCaptured ==
    /\ (outcome.kind = "raise" /\ outcome.op \in WorkflowNodes) =>
          /\ state.error = outcome.error
          /\ Last(state.messages) = FaultMsg(outcome.error)
          /\ pc \in {"retry", "END", "responded"}
          /\ pc = "responded" =>
                /\ response.body.error = outcome.error
                /\ Last(response.body.steps) = FaultMsg(outcome.error)
    /\ (AnalyzeDone /\ WorkflowRan) => response.status = 200

SummarizeFaultReturned ==
    /\ AnalyzeDone
    /\ outcome.op = "summarize"
    /\ outcome.kind = "raise"
    /\ response.status = 200

\* C5: a run whose last step failed answers 200 with the workflow result,
\* the error field set, and a narration log that opens with the request,
\* shows the opening entry of every node executed, in order, and ends with
\* the failure.
FailedStepAnswers200 ==
    (AnalyzeDone /\ WorkflowRan /\ StepFailed(outcome)) =>
        /\ response.status = 200
        /\ Truthy(response.body.error)
        /\ response.body.error = outcome.error
        /\ IsSubseq([i \in 1..Len(visited) |-> OpeningEntry(visited[i])],
                    response.body.steps)
        /\ Last(response.body.steps) \in
              {FailedMsg(outcome.error), FaultMsg(outcome.error)}

ExtractFailureReturned ==
    /\ AnalyzeDone
    /\ outcome.op = "extract"
    /\ outcome.kind = "return"
    /\ ~outcome.success
    /\ response.status = 200

\* C6: a run in which search (first or retried) found a transcript, extract
\* succeeded and summarize succeeded returns time_period = quarter, space,
\* year ("Q3 2024" for Q3 and 2024), a summary, a source URL, the six
\* entries searching, found, extracting, extracted, analyzing, complete in
\* this order, and no error.
SuccessfulRunResult ==
    (AnalyzeDone /\ outcome.op = "summarize" /\ outcome.kind = "return") =>
        LET body == response.body
        IN  /\ response.status = 200
            /\ body.quarter = Upper(request.quarter)
            /\ body.year = request.year
            /\ body.time_period = body.quarter \o " " \o body.year
            /\ (request.quarter = "Q3" /\ request.year = "2024")
                  => body.time_period = "Q3 2024"
            /\ Truthy(body.summary)
            /\ Truthy(body.source_url)
            /\ \E n \in ExtractLens \cup SearchLens :
                 IsSubseq(<<SearchingMsg(body.quarter, body.year),
                            FoundMsg(body.source),
                            ExtractingMsg,
                            ExtractedMsg(n),
                            AnalyzingMsg,
                            CompleteMsg>>, body.steps)
            /\ ~Truthy(body.error)

SuccessAfterRetry ==
    /\ AnalyzeDone
    /\ visited = <<"search", "retry", "extract", "summarize">>
    /\ outcome.op = "summarize"
    /\ outcome.kind = "return"
    /\ response.body.time_period = "Q3 2024"

\* C7: a request with ticker and year present and a quarter that is not
\* Q1..Q4 after uppercasing is answered 400 with the message naming the
\* valid quarters, and no workflow node runs.
InvalidQuarterAnswers400 ==
    (/\ AnalyzeDone
     /\ Truthy(Upper(Get(request, "ticker")))
     /\ Truthy(Get(request, "year"))
     /\ Truthy(Upper(Get(request, "quarter")))
     /\ Upper(Get(request, "quarter")) \notin ValidQuarters) =>
        /\ response.status = 400
        /\ response.detail = "quarter must be Q1, Q2, Q3, or Q4"
        /\ ~WorkflowRan

\* C8: on each of the three chat routes a request without a message, or with
\* an empty one, is answered 400 and no completion request is issued.
MissingMessageAnswers400 ==
    (/\ endpoint \in {"finance-chat", "earnings-chat", "multi-earnings-chat"}
     /\ pc = "responded"
     /\ ~Truthy(Get(request, "message"))) =>
        /\ response.status = 400
        /\ calls.completion = 0

-----------------------------------------------------------------------------
(* Properties of the token budget of chat save *)

RECURSIVE SumOfEstimates(_)
\* each message's length divided by 4, summed
SumOfEstimates(msgs) ==
    IF msgs = <<>> THEN 0
    ELSE (Head(msgs).content \div 4) + SumOfEstimates(Tail(msgs))

SaveDone == endpoint = "chat-save" /\ pc = "responded"
SavedMessages == Last(chat_sessions).messages
OverBudget == TotalChars(chat_data.messages) \div 4 > 8000

\* C9: over the budget the saved list is a suffix of the submitted list
\* whose per-message estimates sum to at most 8000; within the budget the
\* saved list is the submitted list and truncated is false.
SavedListWithinBudget ==
    SaveDone =>
        IF OverBudget
        THEN /\ IsSuffix(SavedMessages, chat_data.messages)
             /\ SumOfEstimates(SavedMessages) <= 8000
        ELSE /\ SavedMessages = chat_data.messages
             /\ save_response.truncated = FALSE

OlderMessagesDropped ==
    /\ SaveDone
    /\ OverBudget
    /\ Len(chat_data.messages) = 3
    /\ Len(SavedMessages) = 2

\* C10: over the budget the response reports truncated = true.
OverBudgetReportsTruncated ==
    (SaveDone /\ OverBudget) => save_response.truncated = TRUE

-----------------------------------------------------------------------------
(* Properties of the guarded finance chat *)

\* the requests of a chat turn that searches the web, in order
ChatOrder ==
    <<"chat.completions.create", "mcp_session.open", "session.initialize",
      "session.list_tools", "session.call_tool", "mcp_session.close",
      "chat.completions.create">>

FinanceChatStep == endpoint = "finance-chat" /\ pc' # pc

\* C21: in the guarded finance chat, a first completion without a tool call
\* ends the turn: one completion request, no search-tool session, the first
\* response's text as the answer and no sources.  A first completion with a
\* tool call is followed by one search-tool session (open, initialize, list
\* tools, call tool, close) and then by one second completion request, in
\* that order, and the answer is the second completion's text.
FinanceChatRequestsInOrder ==
    [][FinanceChatStep =>
         /\ (pc = "recv" /\ outcome'.kind = "return" /\ events' # <<>>) =>
               IF outcome'.tool_calls
               THEN /\ pc' = "search_web"
                    /\ events' = <<"chat.completions.create">>
               ELSE /\ pc' = "responded"
                    /\ events' = <<"chat.completions.create">>
                    /\ calls'.completion = 1
                    /\ calls'.mcp = 0
                    /\ response'.status = 200
                    /\ response'.body.response = outcome'.content
                    /\ response'.body.sources = <<>>
         /\ pc = "search_web" =>
               /\ IsSubseq(events', SubSeq(ChatOrder, 1, 6))
               /\ pc' = "completion" => events' = SubSeq(ChatOrder, 1, 6)
         /\ pc = "completion" =>
               /\ events' = ChatOrder
               /\ calls'.completion = 2
               /\ calls'.mcp = 1
               /\ response'.status = 200 =>
                     response'.body.response = outcome'.content]_vars

FinanceChatAnsweredFromSearch ==
    /\ endpoint = "finance-chat"
    /\ pc = "responded"
    /\ response.status = 200
    /\ events = ChatOrder
    /\ response.body.sources # <<>>

\* C24: whatever the content blocks of the tool-call result, search_web
\* returns at most 5 entries, each with a snippet of at most 300 characters,
\* and the answer carries at most 5 source URLs.
WebSearchReturnsAtMostFive ==
    /\ (endpoint = "finance-chat" /\ pc = "completion") =>
          /\ Len(outcome.results) <= 5
          /\ \A i \in 1..Len(outcome.results) :
                outcome.results[i].snippet <= 300
    /\ (endpoint = "finance-chat" /\ pc = "responded"
        /\ response.status = 200) =>
          Len(response.body.sources) <= 5

-----------------------------------------------------------------------------
(* Properties of the transcript extraction *)

Extracted == endpoint = "none" /\ pc = "returned" /\ calls.extract = 1

\* no request to Tavily that the call made faulted
TavilyAnswered ==
    /\ tavily.client_fault = None
    /\ tavily.extract_fault = None
    /\ (tavily.extract_results = 0 \/ tavily.extract_raw <= 1000) =>
          tavily.search_fault = None

\* the longer of the search result's raw content and content
BestContent ==
    IF ~tavily.search_raw_none /\ tavily.search_raw > tavily.search_content
    THEN tavily.search_raw ELSE tavily.search_content

\* C23: extraction succeeds only through three tiers tried in order: the
\* direct extraction's raw content when longer than 1000; otherwise the
\* longer of the search result's raw content and content when longer than
\* 500; otherwise the answer field when longer than 500.  When no tier
\* qualifies it returns success = false, empty content and the error "Could
\* not extract sufficient content from URL"; every success carries more than
\* 500 characters.
ExtractionFollowsTiers ==
    /\ (Extracted /\ outcome.kind = "return" /\ outcome.success) =>
          outcome.content > 500
    /\ (Extracted /\ TavilyAnswered) =>
          outcome =
             IF tavily.extract_results > 0 /\ tavily.extract_raw > 1000
             THEN ExtractOk(tavily.extract_raw)
             ELSE IF tavily.search_results > 0 /\ BestContent > 500
             THEN ExtractOk(BestContent)
             ELSE IF tavily.answer > 500
             THEN ExtractOk(tavily.answer)
             ELSE ExtractFail("Could not extract sufficient content from URL")

-----------------------------------------------------------------------------
(* Properties of the handlers run as coroutines *)

\* the step is a step of coroutine c
Moved(c) == tasks'[c] # tasks[c]

\* the user has a session updated less than 3600 seconds ago
HasFreshSession(user_id) ==
    \E i \in 1..Len(chat_sessions) :
        /\ chat_sessions[i].user_id = user_id
        /\ now - chat_sessions[i].updated_at < 3600

OtherUsersSessionsUntouched ==
    [][\A c \in Coroutines : \A other \in SessionUsers :
          (Moved(c) /\ other.user_id # tasks'[c].user_id) =>
              SessionsOf(chat_sessions', other.user_id)
                 = SessionsOf(chat_sessions, other.user_id)]_vars

PrunedBesideAnotherUser ==
    \E c, d \in Coroutines :
        /\ tasks[c].route = "chat-save"
        /\ tasks[c].pc = "done"
        /\ tasks[c].to_delete # {}
        /\ tasks[d].route = "chat-session-delete"
        /\ tasks[d].pc = "done"
        /\ tasks[d].user_id # tasks[c].user_id
        /\ tasks[d].status = 404
        /\ SessionsOf(chat_sessions, tasks[d].user_id) # <<>>

\* C27: the users collection never holds two documents with the same email,
\* also when two signups for one email interleave between their lookup and
\* their insert.
OneUserDocumentPerEmail ==
    \A email \in Emails : Len(FindByEmail(users, email)) <= 1

\* C28: two saves of the same user handled concurrently by the merging
\* definition answer with the same session id, and between them create at
\* most one session document.
ConcurrentSavesShareOneSession ==
    (/\ \A c \in Coroutines :
           /\ tasks[c].handler = "save_chat_session@544"
           /\ tasks[c].pc = "done"
     /\ tasks[1].user_id = tasks[2].user_id) =>
        /\ tasks[1].session_id = tasks[2].session_id
        /\ Cardinality({i \in 1..Len(chat_sessions) :
                           chat_sessions[i]._id > Len(saves) - 2}) <= 1

====
